---------------------------- MODULE Spec2Model ----------------------------
(* Representation/content engine of the Berkeley-DB filesystem back end    *)
(* (reps-strings.c): representations stored as fulltext strings or as       *)
(* chains of svndiff windows, range reads through a delta chain, read and   *)
(* write streams with their MD5 bookkeeping, deltify and undeltify.         *)
EXTENDS Integers, Sequences, FiniteSets, TLC

(***************************************************************************)
(* Bounds of the model.                                                    *)
(***************************************************************************)
ChunkSize == 6        \* SVN_STREAM_CHUNK_SIZE, scaled down
MaxRepKey == 3        \* rep keys of the reps table
MaxStrKey == 8        \* string keys of the strings table
MaxNewReps == 1       \* reps made by svn_fs__get_mutable_rep in one run
MaxWStreams == 1      \* write streams opened in one run
MaxRStreams == 1      \* read streams opened in one run
MaxDeltaOps == 3      \* calls of deltify and undeltify among committed reps
MaxStreamDeltaOps == 2  \* calls of deltify and undeltify beside the streams
MaxWrites == 2        \* writes through one write stream
NumTxns == 2          \* ids 1..NumTxns of the transactions in progress
MaxChunks == 3        \* chunks of a rep that damage may reach
MaxToken == 2         \* lock tokens made by generate_new_lock in one run
MaxAttach == 1        \* locks written by svn_fs_base__attach_lock in one run

(***************************************************************************)
(* Program constants.                                                      *)
(***************************************************************************)
SvndiffHeaderLen == 4 \* "SVN" + version byte
WinHeaderLen == 1     \* encoded length of one window's header

Byte == {1, 2}
RepKeys == 1..MaxRepKey
StrKeys == 1..MaxStrKey
Txns == 1..NumTxns
NoKey == 0            \* a NULL key / NULL txn_id

Min(a, b) == IF a < b THEN a ELSE b

\* the element of a singleton set: The({e : x \in {v}}) is e with x bound to
\* the value v, which is computed once
The(S) == CHOOSE x \in S : TRUE

(***************************************************************************)
(* MD5, taken as free of collisions: a digest is the marker 1 followed by  *)
(* the digested bytes, so that two digests are equal iff the bytes are;    *)
(* the all-zero digest is the marker 0 alone.                              *)
(***************************************************************************)
ZeroDigest == <<0>>

MD5(s) == <<1>> \o s

svn_md5_empty_string_digest == MD5(<<>>)

svn_md5_digests_match(d1, d2) ==
  d1 = ZeroDigest \/ d2 = ZeroDigest \/ d1 = d2

(***************************************************************************)
(* Records of the two tables.                                              *)
(***************************************************************************)
NoRep == [kind |-> "none", txn_id |-> NoKey, checksum |-> ZeroDigest,
          string_key |-> NoKey, chunks |-> <<>>]
NoString == [live |-> FALSE, data |-> <<>>, win |-> <<>>]

\* a chunk of a delta rep
Chunk(version, string_key, size, offset, rep_key, checksum) ==
  [version |-> version, string_key |-> string_key, size |-> size,
   offset |-> offset, rep_key |-> rep_key, checksum |-> checksum]

\* rep_is_mutable that does not look at the caller's txn_id
rep_is_mutable_any_txn(rep, txn_id) == rep.txn_id # NoKey

rep_is_mutable(rep, txn_id) ==
  IF rep.txn_id = NoKey THEN FALSE ELSE rep.txn_id = txn_id

make_fulltext_rep(str_key, txn_id, checksum) ==
  [kind |-> "fulltext", txn_id |-> txn_id, checksum |-> checksum,
   string_key |-> str_key, chunks |-> <<>>]

delta_string_keys(rep) ==
  [i \in 1..Len(rep.chunks) |-> rep.chunks[i].string_key]

\* the strings table after deleting the strings named in keys
delete_strings(S, keys) ==
  [k \in StrKeys |-> IF \E i \in 1..Len(keys) : keys[i] = k
                     THEN NoString ELSE S[k]]

(***************************************************************************)
(* Strings table.  A string holds literal bytes (data) or, for the string  *)
(* of a delta chunk, one serialized svndiff window (win, at most one).     *)
(***************************************************************************)
\* number of j in 1..n with P[j]
RECURSIVE CountTrue(_, _)
CountTrue(P, n) ==
  IF n = 0 THEN 0 ELSE (IF P[n] THEN 1 ELSE 0) + CountTrue(P, n - 1)

RECURSIVE SumSeq(_)
SumSeq(s) == IF s = <<>> THEN 0 ELSE s[1] + SumSeq(Tail(s))

\* op j of a window starts a new instruction (ops are kept per target byte)
NewRun(ops, j) ==
  \/ j = 1
  \/ ops[j].src # ops[j-1].src
  \/ ops[j].src /\ ops[j].v # ops[j-1].v + 1

\* number of instructions, of source-copy instructions, of new-data bytes
num_ops(w) == CountTrue([j \in 1..Len(w.ops) |-> NewRun(w.ops, j)], Len(w.ops))
src_ops(w) ==
  CountTrue([j \in 1..Len(w.ops) |-> w.ops[j].src /\ NewRun(w.ops, j)],
            Len(w.ops))
new_len(w) == CountTrue([j \in 1..Len(w.ops) |-> ~w.ops[j].src], Len(w.ops))

\* length of the svndiff encoding of one window, without the stream header
svndiff_window_len(w) == WinHeaderLen + num_ops(w) + new_len(w)

svn_fs__bdb_string_size(S, key) ==
  IF S[key].win # <<>> THEN svndiff_window_len(S[key].win[1]) + Len(S[key].data)
  ELSE Len(S[key].data)

\* up to len bytes of the string from offset on
svn_fs__bdb_string_read(S, key, offset, len) ==
  SubSeq(S[key].data, offset + 1, Min(offset + len, Len(S[key].data)))

\* the smallest string key never handed out (keys are not reused)
svn_fs__bdb_string_append(S, key, bytes) ==
  [S EXCEPT ![key] = [live |-> TRUE, data |-> S[key].data \o bytes,
                      win |-> S[key].win]]

(***************************************************************************)
(* The delta library: windows, the differ, composition and application.    *)
(* A window is [sview_offset, sview_len, tview_len, ops]; ops has one      *)
(* entry per target byte, [src |-> TRUE, v |-> index into the source view] *)
(* or [src |-> FALSE, v |-> the new byte]; runs of consecutive entries     *)
(* form one instruction.                                                   *)
(***************************************************************************)
BadByte == 0   \* a byte fetched from outside the source buffer

\* the smallest index i of sv holding byte b, or 0
FirstIndex(sv, b) ==
  IF \E i \in 1..Len(sv) : sv[i] = b
  THEN CHOOSE i \in 1..Len(sv) : sv[i] = b /\ \A k \in 1..(i-1) : sv[k] # b
  ELSE 0

\* the differ's instruction for target byte j, after the instructions ops
DiffOp(sv, tv, ops, j) ==
  LET prev == IF j > 1 /\ ops[j-1].src THEN ops[j-1].v + 2 ELSE 0
  IN IF prev # 0 /\ prev <= Len(sv) /\ sv[prev] = tv[j]
       THEN [src |-> TRUE, v |-> prev - 1]
     ELSE IF j <= Len(sv) /\ sv[j] = tv[j]
       THEN [src |-> TRUE, v |-> j - 1]
     ELSE IF FirstIndex(sv, tv[j]) # 0
       THEN [src |-> TRUE, v |-> FirstIndex(sv, tv[j]) - 1]
     ELSE [src |-> FALSE, v |-> tv[j]]

RECURSIVE DiffOps(_, _, _)
DiffOps(sv, tv, j) ==
  IF j = 0 THEN <<>>
  ELSE LET ops == DiffOps(sv, tv, j - 1)
       IN Append(ops, DiffOp(sv, tv, ops, j))

\* svn_txdelta_next_window: the window turning source view sv, found at
\* offset pos of the source, into target view tv
svn_txdelta_window(sv, tv, pos) ==
  [sview_offset |-> pos, sview_len |-> Len(sv), tview_len |-> Len(tv),
   ops |-> DiffOps(sv, tv, Len(tv))]

\* svn_txdelta__apply_instructions: the first tlen target bytes
svn_txdelta__apply_instructions(w, source_buf, tlen) ==
  [j \in 1..Min(tlen, w.tview_len) |->
     IF w.ops[j].src
     THEN (IF w.ops[j].v + 1 <= Len(source_buf)
           THEN source_buf[w.ops[j].v + 1] ELSE BadByte)
     ELSE w.ops[j].v]

\* svn_txdelta__compose_windows (window_A the older, window_B the newer);
\* windows are passed as sequences of length <= 1, <<>> being NULL
svn_txdelta__compose_windows(window_A, window_B) ==
  IF window_A = <<>>
    THEN [composite |-> <<>>, use_second |-> TRUE,
          sview_offset |-> window_B[1].sview_offset,
          sview_len |-> window_B[1].sview_len]
  ELSE IF src_ops(window_B[1]) = 0
    THEN [composite |-> <<>>, use_second |-> TRUE,
          sview_offset |-> window_A[1].sview_offset,
          sview_len |-> window_A[1].sview_len]
  ELSE LET A == window_A[1]
           B == window_B[1]
       IN [composite |->
             << [sview_offset |-> A.sview_offset, sview_len |-> A.sview_len,
                 tview_len |-> B.tview_len,
                 ops |-> [j \in 1..Len(B.ops) |->
                            IF B.ops[j].src
                            THEN (IF B.ops[j].v + 1 <= Len(A.ops)
                                  THEN A.ops[B.ops[j].v + 1]
                                  ELSE [src |-> FALSE, v |-> BadByte])
                            ELSE B.ops[j]]] >>,
           use_second |-> FALSE, sview_offset |-> 0, sview_len |-> 0]

(***************************************************************************)
(* Reading the contents of a representation.                               *)
(***************************************************************************)
\* a result of a read: an error code and the bytes placed in the buffer
Result(err, data) == [err |-> err, data |-> data]

\* struct compose_handler_baton, zero-initialised; failed records a failed
\* assertion of the handler
EmptyBaton == [window |-> <<>>, done |-> FALSE, init |-> FALSE, failed |-> FALSE]

\* compose_handler: window is <<>> (NULL) or << w >>
compose_handler(window, cb) ==
  IF cb.done /\ window # <<>> THEN [cb EXCEPT !.failed = TRUE]
  ELSE IF ~cb.init /\ window = <<>> THEN cb
  ELSE IF cb.window # <<>> THEN
    The({ IF c.composite # <<>>
            THEN [cb EXCEPT !.window = c.composite, !.init = FALSE]
          ELSE IF c.use_second
            THEN [cb EXCEPT !.window = << [cb.window[1] EXCEPT
                                             !.sview_offset = c.sview_offset,
                                             !.sview_len = c.sview_len] >>,
                            !.done = TRUE, !.init = FALSE]
          ELSE [cb EXCEPT !.failed = TRUE]
          : c \in { svn_txdelta__compose_windows(window, cb.window) } })
  ELSE IF window # <<>> THEN
    [cb EXCEPT !.window = window,
               !.done = (window[1].sview_len = 0 \/ src_ops(window[1]) = 0),
               !.init = FALSE]
  ELSE [cb EXCEPT !.done = TRUE, !.init = FALSE]

\* get_one_window: push window cur_chunk (0-based) of rep at the handler; the
\* svndiff parser delivers the window of the chunk's string and then, at the
\* close of the stream, a NULL window
get_one_window(S, cb, rep, cur_chunk) ==
  IF Len(rep.chunks) <= cur_chunk
  THEN compose_handler(<<>>, [cb EXCEPT !.init = TRUE])
  ELSE The({ The({ IF cb3.init \/ cb3.window = <<>>
                   THEN [cb3 EXCEPT !.failed = TRUE] ELSE cb3
                   : cb3 \in { compose_handler(<<>>, cb2) } })
             : cb2 \in { compose_handler(
                           S[rep.chunks[cur_chunk + 1].string_key].win,
                           [cb EXCEPT !.init = TRUE]) } })

\* the loop over the deltas without its test of cb.done
RECURSIVE compose_chain_ignores_done(_, _, _, _, _)
compose_chain_ignores_done(S, cb, deltas, cur_rep, cur_chunk) ==
  IF cb.failed \/ cur_rep > Len(deltas) THEN cb
  ELSE The({ compose_chain_ignores_done(S, cb1, deltas, cur_rep + 1, cur_chunk)
             : cb1 \in { get_one_window(S, cb, deltas[cur_rep], cur_chunk) } })

\* the windows of chunk cur_chunk, outermost rep first, folded into one
RECURSIVE compose_chain(_, _, _, _, _)
compose_chain(S, cb, deltas, cur_rep, cur_chunk) ==
  IF cb.done \/ cb.failed \/ cur_rep > Len(deltas) THEN cb
  ELSE The({ compose_chain(S, cb1, deltas, cur_rep + 1, cur_chunk)
             : cb1 \in { get_one_window(S, cb, deltas[cur_rep], cur_chunk) } })

\* every string a read of chunk cur_chunk of the reps in deltas touches exists
chunk_strings_exist(S, deltas, cur_chunk) ==
  \A i \in 1..Len(deltas) :
    Len(deltas[i].chunks) > cur_chunk =>
      /\ deltas[i].chunks[cur_chunk + 1].string_key \in StrKeys
      /\ S[deltas[i].chunks[cur_chunk + 1].string_key].live

\* rep_undeltify_range: fulltext is <<>> (NULL) or << rep >>; out holds the
\* len_read bytes produced by the earlier iterations of the loop
RECURSIVE rep_undeltify_loop(_, _, _, _, _, _, _)
rep_undeltify_loop(S, deltas, fulltext, cur_chunk, offset, len, out) ==
  IF ~chunk_strings_exist(S, deltas, cur_chunk) THEN Result("no_string", out)
  ELSE The({
    IF cb.failed THEN Result("abort", out)
    ELSE IF cb.window = <<>> THEN Result("ok", out)
    ELSE
    LET w == cb.window[1]
        use_source == fulltext # <<>> /\ w.sview_len > 0 /\ src_ops(w) > 0
        str_key == IF use_source THEN fulltext[1].string_key ELSE NoKey
        target_len == IF offset > 0 THEN len - Len(out) + offset
                      ELSE len - Len(out)
    IN IF ~(w.sview_len > 0 \/ src_ops(w) = 0) THEN Result("abort", out)
       ELSE IF use_source /\ (str_key \notin StrKeys \/ ~S[str_key].live)
         THEN Result("no_string", out)
       ELSE The({
         IF use_source /\ Len(source_buf) # w.sview_len
           THEN Result("abort", out)
         ELSE The({
           IF offset > 0 /\ ~(Len(target_buf) > offset)
             THEN Result("abort", out)
           ELSE IF \E j \in 1..Len(target_buf) : target_buf[j] = BadByte
             THEN Result("undefined", out)
           ELSE The({
             IF Len(out1) < len
             THEN rep_undeltify_loop(S, deltas, fulltext, cur_chunk + 1, 0,
                                     len, out1)
             ELSE Result("ok", out1)
             : out1 \in { out \o (IF offset > 0
                                  THEN SubSeq(target_buf, offset + 1,
                                              Len(target_buf))
                                  ELSE target_buf) } })
           : target_buf \in { svn_txdelta__apply_instructions(
                                w, source_buf, target_len) } })
         : source_buf \in { IF use_source
                            THEN svn_fs__bdb_string_read(S, str_key,
                                   w.sview_offset, w.sview_len)
                            ELSE <<>> } })
    : cb \in { compose_chain(S, EmptyBaton, deltas, 1, cur_chunk) } })

rep_undeltify_range(S, deltas, fulltext, cur_chunk, offset, len) ==
  rep_undeltify_loop(S, deltas, fulltext, cur_chunk, offset, len, <<>>)

\* get_chunk_offset: [chunk |-> index (0-based) or -1, off |-> offset in the
\* chunk, failed |-> an assertion failed]
RECURSIVE chunk_scan(_, _, _)
chunk_scan(chunks, rep_offset, cur_chunk) ==
  IF cur_chunk >= Len(chunks) THEN [chunk |-> -1, off |-> 0, failed |-> FALSE]
  ELSE LET this_chunk == chunks[cur_chunk + 1]
       IN IF this_chunk.offset + this_chunk.size > rep_offset
          THEN [chunk |-> cur_chunk, off |-> rep_offset - this_chunk.offset,
                failed |-> ~(this_chunk.offset <= rep_offset)]
          ELSE chunk_scan(chunks, rep_offset, cur_chunk + 1)

\* get_chunk_offset without the offset into the chunk
get_chunk_offset_aligned(rep, rep_offset) ==
  IF Len(rep.chunks) = 0 THEN [chunk |-> -1, off |-> 0, failed |-> TRUE]
  ELSE [chunk_scan(rep.chunks, rep_offset, 0) EXCEPT !.off = 0]

get_chunk_offset(rep, rep_offset) ==
  IF Len(rep.chunks) = 0 THEN [chunk |-> -1, off |-> 0, failed |-> TRUE]
  ELSE chunk_scan(rep.chunks, rep_offset, 0)

\* the do-while of rep_read_range that collects the reps of the chain: fuel
\* counts the reps still to be met before one repeats (the loop of the code
\* then never ends)
RECURSIVE walk_chain(_, _, _, _, _)
walk_chain(R, rep, cur_chunk, reps_so_far, fuel) ==
  LET first_chunk == rep.chunks[1]
      chunk == rep.chunks[cur_chunk + 1]
      rep_key == chunk.rep_key
      next == IF rep_key \in RepKeys THEN R[rep_key] ELSE NoRep
      list == Append(reps_so_far, rep)
  IN IF first_chunk.version # chunk.version
       THEN [err |-> "corrupt", reps |-> list, rep |-> NoRep]
     ELSE IF next.kind = "none"
       THEN [err |-> "no_rep", reps |-> list, rep |-> NoRep]
     ELSE IF next.kind = "delta" /\ Len(next.chunks) > cur_chunk
       THEN (IF fuel = 0 THEN [err |-> "hang", reps |-> list, rep |-> NoRep]
             ELSE walk_chain(R, next, cur_chunk, list, fuel - 1))
     ELSE [err |-> "ok", reps |-> list, rep |-> next]

\* rep_read_range: up to len bytes at offset of the rep rep_key
rep_read_range(R, S, rep_key, offset, len) ==
  LET rep == IF rep_key \in RepKeys THEN R[rep_key] ELSE NoRep
  IN IF rep.kind = "none" THEN Result("no_rep", <<>>)
     ELSE IF rep.kind = "fulltext" THEN
       (IF rep.string_key \in StrKeys /\ S[rep.string_key].live
        THEN Result("ok", svn_fs__bdb_string_read(S, rep.string_key, offset, len))
        ELSE Result("no_string", <<>>))
     ELSE The({
       IF c.failed THEN Result("abort", <<>>)
       ELSE IF c.chunk < 0 THEN Result("ok", <<>>)
       ELSE The({
         IF w.err # "ok" THEN Result(w.err, <<>>)
         ELSE rep_undeltify_range(S, w.reps,
                IF w.rep.kind = "delta" THEN <<>> ELSE << w.rep >>,
                c.chunk, c.off, len)
         : w \in { walk_chain(R, rep, c.chunk, <<>>, MaxRepKey) } })
       : c \in { get_chunk_offset(rep, offset) } })

\* svn_fs__rep_contents_size that takes every chunk to have the size of the
\* first
svn_fs__rep_contents_size_uniform(R, S, rep_key) ==
  LET rep == IF rep_key \in RepKeys THEN R[rep_key] ELSE NoRep
  IN IF rep.kind = "none" THEN [err |-> "no_rep", size |-> 0]
     ELSE IF rep.kind = "fulltext" THEN
       (IF rep.string_key \in StrKeys /\ S[rep.string_key].live
        THEN [err |-> "ok", size |-> svn_fs__bdb_string_size(S, rep.string_key)]
        ELSE [err |-> "no_string", size |-> 0])
     ELSE IF Len(rep.chunks) = 0 THEN [err |-> "abort", size |-> 0]
     ELSE [err |-> "ok", size |-> Len(rep.chunks) * rep.chunks[1].size]

\* svn_fs__rep_contents_size
svn_fs__rep_contents_size(R, S, rep_key) ==
  LET rep == IF rep_key \in RepKeys THEN R[rep_key] ELSE NoRep
  IN IF rep.kind = "none" THEN [err |-> "no_rep", size |-> 0]
     ELSE IF rep.kind = "fulltext" THEN
       (IF rep.string_key \in StrKeys /\ S[rep.string_key].live
        THEN [err |-> "ok", size |-> svn_fs__bdb_string_size(S, rep.string_key)]
        ELSE [err |-> "no_string", size |-> 0])
     ELSE IF Len(rep.chunks) = 0 THEN [err |-> "abort", size |-> 0]
     ELSE LET last_chunk == rep.chunks[Len(rep.chunks)]
          IN [err |-> "ok", size |-> last_chunk.offset + last_chunk.size]

(***************************************************************************)
(* The reconstructed content of a representation: the string of a fulltext *)
(* rep; for a delta rep the concatenation, over its chunks, of the chunk's *)
(* window applied to its source view of the content of the source rep.     *)
(* ok is FALSE when the chain does not end in a fulltext rep, or a rep, a  *)
(* string or a part of a source view is missing.                           *)
(***************************************************************************)
RECURSIVE Concat(_)
Concat(ss) == IF ss = <<>> THEN <<>> ELSE ss[1] \o Concat(Tail(ss))

RECURSIVE Reconstruct(_, _, _, _)
Reconstruct(R, S, rep_key, fuel) ==
  LET rep == IF rep_key \in RepKeys THEN R[rep_key] ELSE NoRep
      str_ok(k) == k \in StrKeys /\ S[k].live
  IN IF rep.kind = "fulltext" THEN
       [ok |-> str_ok(rep.string_key) /\ S[rep.string_key].win = <<>>,
        data |-> IF str_ok(rep.string_key) THEN S[rep.string_key].data ELSE <<>>]
     ELSE IF rep.kind = "delta" /\ fuel > 0 /\ Len(rep.chunks) > 0 THEN
       LET src == Reconstruct(R, S, rep.chunks[1].rep_key, fuel - 1)
           win_ok(i) == /\ str_ok(rep.chunks[i].string_key)
                        /\ S[rep.chunks[i].string_key].win # <<>>
           win(i) == S[rep.chunks[i].string_key].win[1]
           view(i) == SubSeq(src.data, win(i).sview_offset + 1,
                             win(i).sview_offset + win(i).sview_len)
           part(i) == svn_txdelta__apply_instructions(win(i), view(i),
                                                      win(i).tview_len)
           good(i) ==
             /\ win_ok(i)
             /\ rep.chunks[i].rep_key = rep.chunks[1].rep_key
             /\ rep.chunks[i].size = win(i).tview_len
             /\ rep.chunks[i].offset =
                  (IF i = 1 THEN 0
                   ELSE rep.chunks[i-1].offset + rep.chunks[i-1].size)
             /\ win(i).sview_offset + win(i).sview_len <= Len(src.data)
             /\ \A j \in 1..Len(part(i)) : part(i)[j] # BadByte
           all_good == src.ok /\ \A i \in 1..Len(rep.chunks) : good(i)
       IN [ok |-> all_good,
           data |-> IF all_good
                    THEN Concat([i \in 1..Len(rep.chunks) |-> part(i)])
                    ELSE <<>>]
     ELSE [ok |-> FALSE, data |-> <<>>]

Contents(R, S, rep_key) == Reconstruct(R, S, rep_key, MaxRepKey)

(***************************************************************************)
(* Read streams.  A read baton is [live, rep_key, offset, size, md5,       *)
(* checksum_finalized, compared]; md5 is the sequence of bytes fed to the  *)
(* MD5 context, compared counts the checksum comparisons made.             *)
(***************************************************************************)
NoReadBaton == [live |-> FALSE, rep_key |-> NoKey, offset |-> 0, size |-> 0,
                md5 |-> <<>>, checksum_finalized |-> FALSE, compared |-> 0]

\* rep_read_get_baton: rep_key may be NoKey (NULL)
rep_read_get_baton(R, S, rep_key) ==
  The({ [err |-> sz.err,
         rb |-> [live |-> TRUE, rep_key |-> rep_key, offset |-> 0,
                 size |-> sz.size, md5 |-> <<>>, checksum_finalized |-> FALSE,
                 compared |-> 0]]
        : sz \in { IF rep_key # NoKey
                   THEN svn_fs__rep_contents_size(R, S, rep_key)
                   ELSE [err |-> "ok", size |-> 0] } })

\* the checksum test of txn_body_read_rep made after every read
checksum_due_always(rb, offset) == TRUE

\* the test "rb->offset == rb->size" of txn_body_read_rep
checksum_due(rb, offset) == offset = rb.size

\* txn_body_read_rep without the test of checksum_finalized: the checksum
\* is compared whenever the offset stands at the size
txn_body_read_rep_always_compares(R, S, rb, len) ==
  IF rb.rep_key # NoKey THEN
    The({
      LET offset == rb.offset + Len(r.data)
          rb2 == [rb EXCEPT !.offset = offset, !.md5 = rb.md5 \o r.data]
          rb3 == [rb EXCEPT !.offset = offset, !.md5 = rb.md5 \o r.data,
                            !.checksum_finalized = TRUE]
          rb4 == [rb EXCEPT !.offset = offset, !.md5 = rb.md5 \o r.data,
                            !.checksum_finalized = TRUE,
                            !.compared = rb.compared + 1]
      IN IF r.err # "ok" THEN [err |-> r.err, data |-> <<>>, rb |-> rb]
         ELSE IF ~checksum_due(rb, offset)
           THEN [err |-> "ok", data |-> r.data, rb |-> rb2]
         ELSE IF R[rb.rep_key].kind = "none"
           THEN [err |-> "no_rep", data |-> r.data, rb |-> rb3]
         ELSE IF ~svn_md5_digests_match(MD5(rb2.md5), R[rb.rep_key].checksum)
           THEN [err |-> "corrupt", data |-> r.data, rb |-> rb4]
         ELSE [err |-> "ok", data |-> r.data, rb |-> rb4]
      : r \in { rep_read_range(R, S, rb.rep_key, rb.offset, len) } })
  ELSE IF rb.offset > 0 THEN [err |-> "rep_changed", data |-> <<>>, rb |-> rb]
  ELSE [err |-> "ok", data |-> <<>>, rb |-> rb]

\* txn_body_read_rep that takes a stream over no rep as empty whatever its
\* offset
txn_body_read_rep_null_is_empty(R, S, rb, len) ==
  IF rb.rep_key # NoKey THEN
    The({
      LET offset == rb.offset + Len(r.data)
          rb1 == [rb EXCEPT !.offset = offset]
          rb2 == [rb EXCEPT !.offset = offset, !.md5 = rb.md5 \o r.data]
          rb3 == [rb EXCEPT !.offset = offset, !.md5 = rb.md5 \o r.data,
                            !.checksum_finalized = TRUE]
          rb4 == [rb EXCEPT !.offset = offset, !.md5 = rb.md5 \o r.data,
                            !.checksum_finalized = TRUE,
                            !.compared = rb.compared + 1]
      IN IF r.err # "ok" THEN [err |-> r.err, data |-> <<>>, rb |-> rb]
         ELSE IF rb.checksum_finalized
           THEN [err |-> "ok", data |-> r.data, rb |-> rb1]
         ELSE IF ~checksum_due(rb, offset)
           THEN [err |-> "ok", data |-> r.data, rb |-> rb2]
         ELSE IF R[rb.rep_key].kind = "none"
           THEN [err |-> "no_rep", data |-> r.data, rb |-> rb3]
         ELSE IF ~svn_md5_digests_match(MD5(rb2.md5), R[rb.rep_key].checksum)
           THEN [err |-> "corrupt", data |-> r.data, rb |-> rb4]
         ELSE [err |-> "ok", data |-> r.data, rb |-> rb4]
      : r \in { rep_read_range(R, S, rb.rep_key, rb.offset, len) } })
  ELSE [err |-> "ok", data |-> <<>>, rb |-> rb]

\* txn_body_read_rep: [err, data, rb] for a read of len bytes
txn_body_read_rep(R, S, rb, len) ==
  IF rb.rep_key # NoKey THEN
    The({
      LET offset == rb.offset + Len(r.data)
          rb1 == [rb EXCEPT !.offset = offset]
          rb2 == [rb EXCEPT !.offset = offset, !.md5 = rb.md5 \o r.data]
          rb3 == [rb EXCEPT !.offset = offset, !.md5 = rb.md5 \o r.data,
                            !.checksum_finalized = TRUE]
          rb4 == [rb EXCEPT !.offset = offset, !.md5 = rb.md5 \o r.data,
                            !.checksum_finalized = TRUE,
                            !.compared = rb.compared + 1]
      IN IF r.err # "ok" THEN [err |-> r.err, data |-> <<>>, rb |-> rb]
         ELSE IF rb.checksum_finalized
           THEN [err |-> "ok", data |-> r.data, rb |-> rb1]
         ELSE IF ~checksum_due(rb, offset)
           THEN [err |-> "ok", data |-> r.data, rb |-> rb2]
         ELSE IF R[rb.rep_key].kind = "none"
           THEN [err |-> "no_rep", data |-> r.data, rb |-> rb3]
         ELSE IF ~svn_md5_digests_match(MD5(rb2.md5), R[rb.rep_key].checksum)
           THEN [err |-> "corrupt", data |-> r.data, rb |-> rb4]
         ELSE [err |-> "ok", data |-> r.data, rb |-> rb4]
      : r \in { rep_read_range(R, S, rb.rep_key, rb.offset, len) } })
  ELSE IF rb.offset > 0 THEN [err |-> "rep_changed", data |-> <<>>, rb |-> rb]
  ELSE [err |-> "ok", data |-> <<>>, rb |-> rb]

(***************************************************************************)
(* Deltified storage.                                                      *)
(***************************************************************************)
\* the window loop with text_off taken after tview_off has been advanced
RECURSIVE deltify_windows_offset_after(_, _, _, _, _, _, _, _)
deltify_windows_offset_after(R, S, srb, trb, pos, tview_off, ww, tdata) ==
  The({
    IF s.err # "ok" THEN [err |-> s.err, ww |-> ww, tdata |-> tdata]
    ELSE The({
      IF tr.err # "ok" THEN [err |-> tr.err, ww |-> ww, tdata |-> tdata]
      ELSE IF Len(tr.data) = 0 THEN [err |-> "ok", ww |-> ww, tdata |-> tdata]
      ELSE The({
        deltify_windows_offset_after(R, S, s.rb, tr.rb, pos + Len(s.data),
          tview_off + window.tview_len,
          Append(ww, [win |-> window,
                      svndiff_len |-> (IF ww = <<>> THEN SvndiffHeaderLen
                                       ELSE 0) + svndiff_window_len(window),
                      text_off |-> tview_off + window.tview_len,
                      text_len |-> window.tview_len]),
          tdata \o tr.data)
        : window \in { svn_txdelta_window(s.data, tr.data, pos) } })
      : tr \in { txn_body_read_rep(R, S, trb, ChunkSize) } })
    : s \in { txn_body_read_rep(R, S, srb, ChunkSize) } })

\* the window loop of svn_fs__rep_deltify: svn_txdelta_next_window reads up
\* to ChunkSize bytes of the source stream, then of the target stream, and
\* yields NULL when the target gave none; each window goes to its own
\* string.  ww is the array of window_write_t built so far, header_read
\* the count of stream-header bytes seen by write_svndiff_strings.
RECURSIVE deltify_windows(_, _, _, _, _, _, _, _)
deltify_windows(R, S, srb, trb, pos, tview_off, ww, tdata) ==
  The({
    IF s.err # "ok" THEN [err |-> s.err, ww |-> ww, tdata |-> tdata]
    ELSE The({
      IF tr.err # "ok" THEN [err |-> tr.err, ww |-> ww, tdata |-> tdata]
      ELSE IF Len(tr.data) = 0 THEN [err |-> "ok", ww |-> ww, tdata |-> tdata]
      ELSE The({
        deltify_windows(R, S, s.rb, tr.rb, pos + Len(s.data),
          tview_off + window.tview_len,
          Append(ww, [win |-> window,
                      svndiff_len |-> (IF ww = <<>> THEN SvndiffHeaderLen
                                       ELSE 0) + svndiff_window_len(window),
                      text_off |-> tview_off,
                      text_len |-> window.tview_len]),
          tdata \o tr.data)
        : window \in { svn_txdelta_window(s.data, tr.data, pos) } })
      : tr \in { txn_body_read_rep(R, S, trb, ChunkSize) } })
    : s \in { txn_body_read_rep(R, S, srb, ChunkSize) } })

\* the i-th new key of the strings table S (0 when the table is full); a
\* key is new when no string lives under it
RECURSIVE NewKeyFrom(_, _, _)
NewKeyFrom(S, k, i) ==
  IF k > MaxStrKey THEN NoKey
  ELSE IF S[k].live THEN NewKeyFrom(S, k + 1, i)
  ELSE IF i = 1 THEN k
  ELSE NewKeyFrom(S, k + 1, i - 1)

NewKey(S, i) == NewKeyFrom(S, 1, i)

\* the new rep of svn_fs__rep_deltify made with the txn_id of the old rep
deltify_new_rep_keep_txn(old_rep, chunks) ==
  [kind |-> "delta", txn_id |-> old_rep.txn_id, checksum |-> old_rep.checksum,
   string_key |-> NoKey, chunks |-> chunks]

\* the rep record svn_fs__rep_deltify writes in place of old_rep: a delta
\* rep with no txn_id and the checksum of old_rep
deltify_new_rep(old_rep, chunks) ==
  [kind |-> "delta", txn_id |-> NoKey, checksum |-> old_rep.checksum,
   string_key |-> NoKey, chunks |-> chunks]

\* svn_fs__rep_deltify that replaces a fulltext target whatever the size of
\* the delta
deltify_against_no_size_guard(R, S, target, source) ==
  LET unchanged(e) == [err |-> e, reps |-> R, strings |-> S, full |-> FALSE]
  IN The({
       IF sb.err # "ok" THEN unchanged(sb.err)
       ELSE The({
         IF tb.err # "ok" THEN unchanged(tb.err)
         ELSE The({
           LET nwin == Len(d.ww)
               \* strings created: one per window; with no window at all,
               \* the one the stream header alone was written to
               created == IF nwin = 0 THEN 1 ELSE nwin
               key(i) == NewKey(S, i)
               S1 == [k \in StrKeys |->
                        IF \E i \in 1..created : key(i) = k
                        THEN [live |-> TRUE, data |-> <<>>,
                              win |-> IF nwin = 0 THEN <<>>
                                      ELSE << d.ww[CHOOSE i \in 1..nwin :
                                                     key(i) = k].win >>]
                        ELSE S[k]]
               diffsize == SumSeq([i \in 1..nwin |-> d.ww[i].svndiff_len])
               digest == MD5(d.tdata)
               old_rep == R[target]
               old_size == svn_fs__bdb_string_size(S1, old_rep.string_key)
               orig_str_keys == IF old_rep.kind = "fulltext"
                                THEN << old_rep.string_key >>
                                ELSE delta_string_keys(old_rep)
               new_rep == deltify_new_rep(old_rep,
                            [i \in 1..nwin |->
                               Chunk(0, key(i), d.ww[i].text_len,
                                     d.ww[i].text_off, source, digest)])
           IN IF d.err # "ok" THEN unchanged(d.err)
              ELSE IF key(created) = NoKey
                THEN [err |-> "ok", reps |-> R, strings |-> S, full |-> TRUE]
              ELSE [err |-> "ok", reps |-> [R EXCEPT ![target] = new_rep],
                    strings |-> delete_strings(S1, orig_str_keys),
                    full |-> FALSE]
           : d \in { deltify_windows(R, S, sb.rb, tb.rb, 0, 0, <<>>, <<>>) } })
         : tb \in { rep_read_get_baton(R, S, target) } })
       : sb \in { rep_read_get_baton(R, S, source) } })

\* svn_fs__rep_deltify after its test of the keys: [err, reps, strings,
\* full] with the tables as the trail leaves them (an error aborts the
\* trail: nothing changes); full tells that the strings table of the model
\* had no room for the call
deltify_against(R, S, target, source) ==
  LET unchanged(e) == [err |-> e, reps |-> R, strings |-> S, full |-> FALSE]
  IN The({
       IF sb.err # "ok" THEN unchanged(sb.err)
       ELSE The({
         IF tb.err # "ok" THEN unchanged(tb.err)
         ELSE The({
           LET nwin == Len(d.ww)
               \* strings created: one per window; with no window at all,
               \* the one the stream header alone was written to
               created == IF nwin = 0 THEN 1 ELSE nwin
               key(i) == NewKey(S, i)
               S1 == [k \in StrKeys |->
                        IF \E i \in 1..created : key(i) = k
                        THEN [live |-> TRUE, data |-> <<>>,
                              win |-> IF nwin = 0 THEN <<>>
                                      ELSE << d.ww[CHOOSE i \in 1..nwin :
                                                     key(i) = k].win >>]
                        ELSE S[k]]
               diffsize == SumSeq([i \in 1..nwin |-> d.ww[i].svndiff_len])
               digest == MD5(d.tdata)
               old_rep == R[target]
               old_size == svn_fs__bdb_string_size(S1, old_rep.string_key)
               orig_str_keys == IF old_rep.kind = "fulltext"
                                THEN << old_rep.string_key >>
                                ELSE delta_string_keys(old_rep)
               new_rep == deltify_new_rep(old_rep,
                            [i \in 1..nwin |->
                               Chunk(0, key(i), d.ww[i].text_len,
                                     d.ww[i].text_off, source, digest)])
           IN IF d.err # "ok" THEN unchanged(d.err)
              ELSE IF key(created) = NoKey
                THEN [err |-> "ok", reps |-> R, strings |-> S, full |-> TRUE]
              ELSE IF old_rep.kind = "fulltext" /\ diffsize >= old_size
                THEN [err |-> "ok", reps |-> R,
                      strings |-> delete_strings(S1, [i \in 1..nwin |-> key(i)]),
                      full |-> FALSE]
              ELSE [err |-> "ok", reps |-> [R EXCEPT ![target] = new_rep],
                    strings |-> delete_strings(S1, orig_str_keys),
                    full |-> FALSE]
           : d \in { deltify_windows(R, S, sb.rb, tb.rb, 0, 0, <<>>, <<>>) } })
         : tb \in { rep_read_get_baton(R, S, target) } })
       : sb \in { rep_read_get_baton(R, S, source) } })

\* svn_fs__rep_deltify without the test that target and source differ
svn_fs__rep_deltify_any_source(R, S, target, source) ==
  deltify_against(R, S, target, source)

\* svn_fs__rep_deltify
svn_fs__rep_deltify(R, S, target, source) ==
  IF target = source
  THEN [err |-> "corrupt", reps |-> R, strings |-> S, full |-> FALSE]
  ELSE deltify_against(R, S, target, source)

\* the read loop of svn_fs__rep_undeltify: reads of ChunkSize bytes until
\* one returns no byte
RECURSIVE undeltify_read(_, _, _, _)
undeltify_read(R, S, rb, data) ==
  The({ IF r.err # "ok" THEN [err |-> r.err, data |-> data]
        ELSE IF Len(r.data) = 0 THEN [err |-> "ok", data |-> data]
        ELSE undeltify_read(R, S, r.rb, data \o r.data)
        : r \in { txn_body_read_rep(R, S, rb, ChunkSize) } })

\* svn_fs__rep_undeltify
svn_fs__rep_undeltify(R, S, rep_key) ==
  LET unchanged(e) == [err |-> e, reps |-> R, strings |-> S, full |-> FALSE]
      nstr == NewKey(S, 1)
      rep == R[rep_key]
      orig_keys == delta_string_keys(rep)
  IN IF rep.kind = "none" THEN unchanged("no_rep")
     ELSE IF rep.kind = "fulltext" THEN unchanged("ok")
     ELSE The({
       IF sb.err # "ok" THEN unchanged(sb.err)
       ELSE The({
         IF d.err # "ok" THEN unchanged(d.err)
         ELSE IF ~svn_md5_digests_match(rep.checksum, MD5(d.data))
           THEN unchanged("corrupt")
         ELSE IF nstr = NoKey
           THEN [err |-> "ok", reps |-> R, strings |-> S, full |-> TRUE]
         ELSE [err |-> "ok",
               reps |-> [R EXCEPT ![rep_key] =
                           make_fulltext_rep(nstr, NoKey, ZeroDigest)],
               strings |-> delete_strings(
                             [k \in StrKeys |->
                                IF k = nstr
                                THEN [live |-> TRUE, data |-> d.data,
                                      win |-> <<>>]
                                ELSE S[k]], orig_keys),
               full |-> FALSE]
         : d \in { undeltify_read(R, S, sb.rb, <<>>) } })
       : sb \in { rep_read_get_baton(R, S, rep_key) } })

(***************************************************************************)
(* The state: the two tables, the key counter of the reps table, the write *)
(* stream and the read stream held by the caller with the number of        *)
(* streams opened so far, and the outcome of the last call.                *)
(***************************************************************************)
VARIABLES reps, strings, next_rep, wstream, rstream, opened, last,
          locks, lock_tokens, next_token, attached

vars == <<reps, strings, next_rep, wstream, rstream, opened, last,
          locks, lock_tokens, next_token, attached>>

(***************************************************************************)
(* The lock tables (lock.c): `locks' maps a lock token to its lock,        *)
(* `lock-tokens' maps a path to the token of its lock; next_token is the   *)
(* next token svn_fs_base__generate_token makes (a UUID: never one that    *)
(* was made before); attached counts the locks written by                  *)
(* svn_fs_base__attach_lock.                                               *)
(***************************************************************************)
lock_vars == <<locks, lock_tokens, next_token, attached>>

\* the paths of the tree: a directory, two files in it, and a name that
\* does not exist in HEAD
Paths == {"/d", "/d/f", "/d/g", "/h"}

\* usernames of access contexts; NoUser is a NULL access context or username
Users == {"u1", "u2"}
NoUser == "none"

\* a token made by another filesystem, which svn_fs_base__generate_token
\* never returns here
ForeignToken == MaxToken + 1
Tokens == 1..ForeignToken

\* svn_lock_t; expiry is "never" (expiration_date 0), "later" (a date not
\* yet reached) or "past" (a date that apr_time_now has passed)
Lock(token, path, owner, expiry) ==
  [live |-> TRUE, token |-> token, path |-> path, owner |-> owner,
   expiry |-> expiry]
NoLock == [live |-> FALSE, token |-> NoKey, path |-> "", owner |-> NoUser,
           expiry |-> "never"]

\* both tables empty
NoLocks ==
  /\ locks = [t \in Tokens |-> NoLock]
  /\ lock_tokens = [p \in Paths |-> NoKey]
  /\ next_token = 1
  /\ attached = 0

\* struct rep_write_baton; md5 is the sequence of bytes fed to the context
\* before it was finalized, written the bytes of all the writes that
\* returned success, writes the count of writes made through the stream
NoWriteBaton == [live |-> FALSE, rep_key |-> NoKey, txn_id |-> NoKey,
                 md5 |-> <<>>, finalized |-> FALSE, written |-> <<>>,
                 writes |-> 0]

\* the outcome of a call: the operation, the rep key it was given, its error
\* code, the bytes passed or returned
Outcome(op, key, err, data) == [op |-> op, key |-> key, err |-> err, data |-> data]

\* the id of a transaction that has committed: no caller runs under it
CommittedTxn == NumTxns + 1

\* contents of the reps of committed transactions
Text(s) == [i \in 1..Len(s) |-> IF s[i] = 0 THEN 1 ELSE 2]
Content1 == Text(<<0,0,0,1,1,1, 0,0,0,1,1,1>>)
Content2 == Text(<<0,0,0,1,1,1, 0,0,0,1,1,1, 0>>)
Content3 == Text(<<1,1,1,0,0,0, 1,1,1,0,0,0>>)
Content4 == Text(<<0,0,0,1,1,1, 1,1,1,0,0,0>>)
Content5 == Text(<<0, 0,0,0,1,1,1, 0,0,0,1,1,1>>)
Content6 == Text(<<0,0,0,1,1,1, 0,0,0,1,1,1, 1>>)
\* the committed reps 1..MaxRepKey a run of deltifications starts from
CommittedTexts == { <<Content4, Content1, Content2>>,
                    <<Content4, Content1, Content3>>,
                    <<Content1, Content1, Content2>>,
                    <<Content1, <<>>, Content3>>,
                    <<Content1, Content5, Content3>>,
                    <<Content1, Content6, Content2>> }

\* the buffers a caller writes
WriteBuffers == {Content1, Text(<<0>>)}
\* the lengths a caller reads
ReadLens == {ChunkSize - 1, 3 * ChunkSize}

LiveReps == {k \in RepKeys : reps[k].kind # "none"}

\* the tables holding the sealed fulltext reps 1..Len(texts) of committed
\* transactions, rep k in string k with content texts[k]
CommittedReps(texts) ==
  [k \in RepKeys |-> IF k <= Len(texts)
                     THEN make_fulltext_rep(k, CommittedTxn, MD5(texts[k]))
                     ELSE NoRep]
CommittedStrings(texts) ==
  [k \in StrKeys |-> IF k <= Len(texts)
                     THEN [live |-> TRUE, data |-> texts[k], win |-> <<>>]
                     ELSE NoString]

\* one committed rep; the caller then works on it and on reps of its own
Init ==
  /\ reps = CommittedReps(<< Content1 >>)
  /\ strings = CommittedStrings(<< Content1 >>)
  /\ next_rep = 2
  /\ wstream = NoWriteBaton
  /\ rstream = NoReadBaton
  /\ opened = [w |-> 0, r |-> 0, d |-> 0]
  /\ NoLocks
  /\ last = Outcome("init", NoKey, "ok", <<>>)

\* MaxRepKey committed reps
InitDelta ==
  /\ \E texts \in CommittedTexts :
       /\ reps = CommittedReps(texts)
       /\ strings = CommittedStrings(texts)
  /\ next_rep = MaxRepKey + 1
  /\ wstream = NoWriteBaton
  /\ rstream = NoReadBaton
  /\ opened = [w |-> 0, r |-> 0, d |-> 0]
  /\ NoLocks
  /\ last = Outcome("init", NoKey, "ok", <<>>)

\* one rep that transaction 1 has written and sealed, still mutable
MutableTexts == {Content1, Text(<<0, 1>>)}

InitTxn ==
  /\ \E text \in MutableTexts :
       /\ reps = [k \in RepKeys |->
                    IF k = 1 THEN make_fulltext_rep(1, 1, MD5(text)) ELSE NoRep]
       /\ strings = CommittedStrings(<< text >>)
  /\ next_rep = 2
  /\ wstream = NoWriteBaton
  /\ rstream = NoReadBaton
  /\ opened = [w |-> 0, r |-> 0, d |-> 0]
  /\ NoLocks
  /\ last = Outcome("init", NoKey, "ok", <<>>)

\* svn_fs__get_mutable_rep (rep_key may be NoKey); the key returned in
\* *new_rep_key is the data of the outcome
GetMutableRep(rep_key, txn_id) ==
  /\ UNCHANGED <<wstream, rstream, opened>>
  /\ UNCHANGED lock_vars
  /\ IF rep_key # NoKey /\ rep_is_mutable(reps[rep_key], txn_id)
     THEN /\ last' = Outcome("get_mutable_rep", rep_key, "ok", << rep_key >>)
          /\ UNCHANGED <<reps, strings, next_rep>>
     ELSE /\ next_rep <= MaxRepKey
          /\ next_rep <= 1 + MaxNewReps
          /\ NewKey(strings, 1) # NoKey
          /\ strings' = svn_fs__bdb_string_append(strings, NewKey(strings, 1), <<>>)
          /\ reps' = [reps EXCEPT ![next_rep] =
                        make_fulltext_rep(NewKey(strings, 1), txn_id,
                                          svn_md5_empty_string_digest)]
          /\ next_rep' = next_rep + 1
          /\ last' = Outcome("get_mutable_rep", rep_key, "ok", << next_rep >>)

\* svn_fs__delete_rep_if_mutable that deletes the record and no string
svn_fs__delete_rep_if_mutable_keep_strings(R, S, rep_key, txn_id) ==
  LET rep == R[rep_key]
  IN IF rep.kind = "none" THEN [err |-> "no_rep", reps |-> R, strings |-> S]
     ELSE IF ~rep_is_mutable(rep, txn_id)
       THEN [err |-> "ok", reps |-> R, strings |-> S]
     ELSE [err |-> "ok", reps |-> [R EXCEPT ![rep_key] = NoRep], strings |-> S]

\* svn_fs__delete_rep_if_mutable: [err, reps, strings]
svn_fs__delete_rep_if_mutable(R, S, rep_key, txn_id) ==
  LET rep == R[rep_key]
      unchanged(e) == [err |-> e, reps |-> R, strings |-> S]
  IN IF rep.kind = "none" THEN unchanged("no_rep")
     ELSE IF ~rep_is_mutable(rep, txn_id) THEN unchanged("ok")
     ELSE IF rep.kind = "fulltext" THEN
       (IF rep.string_key \in StrKeys /\ S[rep.string_key].live
        THEN [err |-> "ok", reps |-> [R EXCEPT ![rep_key] = NoRep],
              strings |-> delete_strings(S, << rep.string_key >>)]
        ELSE unchanged("no_string"))
     ELSE IF \A i \in 1..Len(rep.chunks) :
               /\ rep.chunks[i].string_key \in StrKeys
               /\ S[rep.chunks[i].string_key].live
       THEN [err |-> "ok", reps |-> [R EXCEPT ![rep_key] = NoRep],
             strings |-> delete_strings(S, delta_string_keys(rep))]
     ELSE unchanged("no_string")

\* a caller's svn_fs__delete_rep_if_mutable in a trail of its own
DeleteRepIfMutable(rep_key, txn_id) ==
  \E d \in { svn_fs__delete_rep_if_mutable(reps, strings, rep_key, txn_id) } :
     /\ reps' = d.reps
     /\ strings' = d.strings
     /\ UNCHANGED lock_vars
     /\ last' = Outcome("delete_rep_if_mutable", rep_key, d.err, << txn_id >>)
     /\ UNCHANGED <<next_rep, wstream, rstream, opened>>

\* rep_contents_clear that leaves the checksum of the rep record as it was
rep_contents_clear_keep_checksum(R, S, rep_key, txn_id) ==
  LET rep == R[rep_key]
      str_key == rep.string_key
  IN IF rep.kind = "none" THEN [err |-> "no_rep", reps |-> R, strings |-> S]
     ELSE IF ~rep_is_mutable(rep, txn_id)
       THEN [err |-> "not_mutable", reps |-> R, strings |-> S]
     ELSE IF rep.kind # "fulltext"
       THEN [err |-> "abort", reps |-> R, strings |-> S]
     ELSE IF str_key # NoKey
       THEN [err |-> "ok", reps |-> R,
             strings |-> [S EXCEPT ![str_key].data = <<>>]]
     ELSE [err |-> "ok", reps |-> R, strings |-> S]

\* rep_contents_clear: [err, reps, strings]
rep_contents_clear(R, S, rep_key, txn_id) ==
  LET rep == R[rep_key]
      str_key == rep.string_key
  IN IF rep.kind = "none" THEN [err |-> "no_rep", reps |-> R, strings |-> S]
     ELSE IF ~rep_is_mutable(rep, txn_id)
       THEN [err |-> "not_mutable", reps |-> R, strings |-> S]
     ELSE IF rep.kind # "fulltext"
       THEN [err |-> "abort", reps |-> R, strings |-> S]
     ELSE IF str_key # NoKey
       THEN [err |-> "ok",
             reps |-> [R EXCEPT ![rep_key].checksum = svn_md5_empty_string_digest],
             strings |-> [S EXCEPT ![str_key].data = <<>>]]
     ELSE [err |-> "ok", reps |-> R, strings |-> S]

\* svn_fs__rep_contents_write_stream; the caller holds one write stream at a
\* time and opens the next after closing it
WriteStream(rep_key, txn_id) ==
  /\ wstream.live => wstream.finalized
  /\ \E c \in { rep_contents_clear(reps, strings, rep_key, txn_id) } :
       /\ c.err = "ok" => opened.w < MaxWStreams
       /\ opened' = IF c.err = "ok" THEN [opened EXCEPT !.w = opened.w + 1]
                    ELSE opened
       /\ reps' = c.reps
       /\ strings' = c.strings
       /\ wstream' = IF c.err = "ok"
                     THEN [live |-> TRUE, rep_key |-> rep_key,
                           txn_id |-> txn_id, md5 |-> <<>>,
                           finalized |-> FALSE, written |-> <<>>, writes |-> 0]
                     ELSE wstream
       /\ UNCHANGED lock_vars
       /\ last' = Outcome("write_stream", rep_key, c.err, <<>>)
  /\ UNCHANGED <<next_rep, rstream>>

\* rep_write: [err, strings]
rep_write(R, S, rep_key, buf, txn_id) ==
  LET rep == R[rep_key]
  IN IF rep.kind = "none" THEN [err |-> "no_rep", strings |-> S]
     ELSE IF rep.kind = "fulltext"
       THEN (IF rep.string_key \in StrKeys /\ S[rep.string_key].live
             THEN [err |-> "ok",
                   strings |-> svn_fs__bdb_string_append(S, rep.string_key, buf)]
             ELSE [err |-> "no_string", strings |-> S])
     ELSE [err |-> "corrupt", strings |-> S]

\* rep_write_contents / txn_body_write_rep; nothing in the stream stops a
\* write after the close, which no longer reaches the digest
Write(buf) ==
  /\ wstream.live
  /\ wstream.writes < MaxWrites
  /\ \E r \in { rep_write(reps, strings, wstream.rep_key, buf,
                          wstream.txn_id) } :
       /\ strings' = r.strings
       /\ wstream' = IF r.err = "ok"
                     THEN [wstream EXCEPT
                             !.md5 = IF wstream.finalized THEN wstream.md5
                                     ELSE wstream.md5 \o buf,
                             !.written = wstream.written \o buf,
                             !.writes = wstream.writes + 1]
                     ELSE [wstream EXCEPT !.writes = wstream.writes + 1]
       /\ UNCHANGED lock_vars
       /\ last' = Outcome("write", wstream.rep_key, r.err, buf)
  /\ UNCHANGED <<reps, next_rep, rstream, opened>>

\* txn_body_write_close_rep that stores no digest
txn_body_write_close_rep_skip(R, rep_key, md5_digest) ==
  [err |-> IF R[rep_key].kind = "none" THEN "no_rep" ELSE "ok", reps |-> R]

\* txn_body_write_close_rep: [err, reps]
txn_body_write_close_rep(R, rep_key, md5_digest) ==
  IF R[rep_key].kind = "none" THEN [err |-> "no_rep", reps |-> R]
  ELSE [err |-> "ok", reps |-> [R EXCEPT ![rep_key].checksum = md5_digest]]

\* rep_write_close_contents; the caller closes a stream once
Close ==
  /\ wstream.live /\ ~wstream.finalized
  /\ \E c \in { txn_body_write_close_rep(reps, wstream.rep_key,
                                         MD5(wstream.md5)) } :
       /\ wstream' = [wstream EXCEPT !.finalized = TRUE]
       /\ reps' = c.reps
       /\ UNCHANGED lock_vars
       /\ last' = Outcome("close", wstream.rep_key, c.err, <<>>)
  /\ UNCHANGED <<strings, next_rep, rstream, opened>>

Deltify(target, source) ==
  \E d \in { svn_fs__rep_deltify(reps, strings, target, source) } :
     /\ ~d.full
     /\ reps' = d.reps
     /\ strings' = d.strings
     /\ UNCHANGED lock_vars
     /\ last' = Outcome("deltify", target, d.err, << source >>)
     /\ opened' = [opened EXCEPT !.d = opened.d + 1]
     /\ UNCHANGED <<next_rep, wstream, rstream>>

Undeltify(rep_key) ==
  \E d \in { svn_fs__rep_undeltify(reps, strings, rep_key) } :
     /\ ~d.full
     /\ reps' = d.reps
     /\ strings' = d.strings
     /\ UNCHANGED lock_vars
     /\ last' = Outcome("undeltify", rep_key, d.err, <<>>)
     /\ opened' = [opened EXCEPT !.d = opened.d + 1]
     /\ UNCHANGED <<next_rep, wstream, rstream>>

\* svn_fs__rep_contents_read_stream (rep_key may be NoKey); the caller
\* holds one read stream at a time
ReadStream(rep_key) ==
  \E b \in { rep_read_get_baton(reps, strings, rep_key) } :
     /\ b.err = "ok" => opened.r < MaxRStreams
     /\ opened' = IF b.err = "ok" THEN [opened EXCEPT !.r = opened.r + 1]
                  ELSE opened
     /\ rstream' = IF b.err = "ok" THEN b.rb ELSE rstream
     /\ UNCHANGED lock_vars
     /\ last' = Outcome("read_stream", rep_key, b.err, <<>>)
     /\ UNCHANGED <<reps, strings, next_rep, wstream>>

\* rep_read_contents / txn_body_read_rep
Read(len) ==
  /\ rstream.live
  /\ \E r \in { txn_body_read_rep(reps, strings, rstream, len) } :
       /\ rstream' = r.rb
       /\ UNCHANGED lock_vars
       /\ last' = Outcome("read", rstream.rep_key, r.err, r.data)
  /\ UNCHANGED <<reps, strings, next_rep, wstream, opened>>

Next ==
  \/ \E k \in LiveReps \cup {NoKey} : GetMutableRep(k, 1)
  \/ \E k \in LiveReps, t \in Txns : WriteStream(k, t)
  \/ \E buf \in WriteBuffers : Write(buf)
  \/ Close
  \/ \E k \in LiveReps \cup {NoKey} : ReadStream(k)
  \/ \E len \in ReadLens : Read(len)
  \/ opened.d < MaxStreamDeltaOps /\ \E t \in LiveReps, s \in LiveReps : Deltify(t, s)
  \/ opened.d < MaxStreamDeltaOps /\ \E k \in LiveReps : Undeltify(k)

NextDelta ==
  \/ opened.d < MaxDeltaOps /\ \E t \in LiveReps, s \in LiveReps : Deltify(t, s)
  \/ opened.d < MaxDeltaOps /\ \E k \in LiveReps : Undeltify(k)

NextTxn ==
  \/ \E k \in LiveReps \cup {NoKey}, t \in Txns : GetMutableRep(k, t)
  \/ \E k \in LiveReps, t \in Txns : WriteStream(k, t)
  \/ \E buf \in WriteBuffers : Write(buf)
  \/ Close
  \/ \E k \in LiveReps, t \in Txns : DeleteRepIfMutable(k, t)
  \/ opened.d < MaxStreamDeltaOps /\ \E t \in LiveReps, s \in LiveReps : Deltify(t, s)
  \/ opened.d < MaxStreamDeltaOps /\ \E k \in LiveReps : Undeltify(k)

\* svn_fs__rep_contents: [err, data], the whole content in one range read
\* (sizes stay far below SVN_MAX_OBJECT_SIZE)
svn_fs__rep_contents(R, S, rep_key) ==
  The({
    IF sz.err # "ok" THEN Result(sz.err, <<>>)
    ELSE The({
      IF r.err # "ok" THEN Result(r.err, <<>>)
      ELSE IF Len(r.data) # sz.size THEN Result("corrupt", <<>>)
      ELSE IF ~svn_md5_digests_match(MD5(r.data), R[rep_key].checksum)
        THEN Result("corrupt", <<>>)
      ELSE Result("ok", r.data)
      : r \in { rep_read_range(R, S, rep_key, 0, sz.size) } })
    : sz \in { svn_fs__rep_contents_size(R, S, rep_key) } })

\* a caller's svn_fs__rep_contents
RepContents(rep_key) ==
  \E r \in { svn_fs__rep_contents(reps, strings, rep_key) } :
     /\ UNCHANGED lock_vars
     /\ last' = Outcome("rep_contents", rep_key, r.err, r.data)
     /\ UNCHANGED <<reps, strings, next_rep, wstream, rstream, opened>>

\* the chunks of rep k whose version is not the version of the first chunk
OddChunks(k) ==
  {i \in 1..Len(reps[k].chunks) :
     reps[k].chunks[i].version # reps[k].chunks[1].version}

\* damage to the stored record of a delta rep: the version of one chunk
\* after the first is changed (the first chunk keeps the version that the
\* window parser is given in the stream header); one rep is damaged at a
\* time
HandEdit(rep_key, i) ==
  /\ reps[rep_key].kind = "delta"
  /\ i \in 2..Len(reps[rep_key].chunks)
  /\ \A k \in LiveReps : OddChunks(k) = {}
  /\ reps' = [reps EXCEPT ![rep_key].chunks[i].version = 1]
  /\ UNCHANGED lock_vars
  /\ last' = Outcome("hand_edit", rep_key, "ok", << i >>)
  /\ UNCHANGED <<strings, next_rep, wstream, rstream, opened>>

NextEdit ==
  \/ opened.d < MaxDeltaOps /\ \E t \in LiveReps, s \in LiveReps : Deltify(t, s)
  \/ opened.d < MaxDeltaOps /\ \E k \in LiveReps : Undeltify(k)
  \/ \E k \in LiveReps, i \in 1..MaxChunks : HandEdit(k, i)
  \/ \E k \in LiveReps : RepContents(k)

\* committed reps, deltified and undeltified, read whole, with damage to a
\* stored chunk
SpecEdit == InitDelta /\ [][NextEdit]_vars

\* a committed rep, transaction 1 that makes reps of its own, and the
\* transactions 1..NumTxns that open write streams
Spec == Init /\ [][Next]_vars

\* deltification and undeltification among committed reps
SpecDelta == InitDelta /\ [][NextDelta]_vars

\* the reps of the transactions in progress: made, rewritten, deltified and
\* deleted
SpecTxn == InitTxn /\ [][NextTxn]_vars

(***************************************************************************)
(* C1.  For every stored rep whose content is defined (a fulltext, or a    *)
(* delta chain of any depth that ends in a fulltext), every offset a and   *)
(* every length n >= 1 with a + n <= size: rep_read_range returns exactly  *)
(* the n bytes reconstruct(R)[a : a+n], and svn_fs__rep_contents_size is   *)
(* the length of the content.                                              *)
(***************************************************************************)
C1_ReadRange ==
  \A k \in LiveReps :
    LET c == Contents(reps, strings, k)
        size == svn_fs__rep_contents_size(reps, strings, k)
    IN c.ok =>
         /\ size = [err |-> "ok", size |-> Len(c.data)]
         /\ \A a \in 0..(Len(c.data) - 1) :
              \A n \in 1..(Len(c.data) - a) :
                rep_read_range(reps, strings, k, a, n)
                  = Result("ok", SubSeq(c.data, a + 1, a + n))

\* a delta rep whose source is a delta rep too, read at an offset inside a
\* chunk over a range that spans two chunks
C1_Witness ==
  \E k \in LiveReps :
    /\ reps[k].kind = "delta"
    /\ reps[reps[k].chunks[1].rep_key].kind = "delta"
    /\ Contents(reps, strings, k).ok
    /\ rep_read_range(reps, strings, k, ChunkSize - 2, 4)
         = Result("ok", SubSeq(Contents(reps, strings, k).data,
                               ChunkSize - 1, ChunkSize + 2))

(***************************************************************************)
(* C2.  Every successful svn_fs__rep_deltify(T, S) with S # T, applied to  *)
(* a target whose content is defined, leaves the reconstructed content of  *)
(* T and the checksum field of T as they were before the call.             *)
(***************************************************************************)
C2_DeltifyPreserves ==
  [][\A target \in LiveReps, source \in LiveReps :
       ( /\ Deltify(target, source)
         /\ target # source
         /\ last'.err = "ok"
         /\ Contents(reps, strings, target).ok )
       => /\ Contents(reps', strings', target) = Contents(reps, strings, target)
          /\ reps'[target].checksum = reps[target].checksum]_vars

(***************************************************************************)
(* C3.  For every rep R whose content is defined and every source S # R:   *)
(* after a successful deltify(R, S), undeltify(R) succeeds and leaves R a  *)
(* fulltext rep whose content is the content R had before the deltify.     *)
(***************************************************************************)
C3_UndeltifyInverse ==
  [][\A target \in LiveReps, source \in LiveReps :
       ( /\ Deltify(target, source)
         /\ target # source
         /\ last'.err = "ok"
         /\ Contents(reps, strings, target).ok )
       => LET u == svn_fs__rep_undeltify(reps', strings', target)
          IN /\ u.err = "ok"
             /\ u.reps[target].kind = "fulltext"
             /\ Contents(u.reps, u.strings, target)
                  = Contents(reps, strings, target)]_vars

(***************************************************************************)
(* C4.  A successful svn_fs__rep_undeltify of a delta rep leaves the       *)
(* checksum field of the rep equal to the value it had before the call.    *)
(***************************************************************************)
C4_UndeltifyKeepsChecksum ==
  [][\A k \in LiveReps :
       (Undeltify(k) /\ reps[k].kind = "delta" /\ last'.err = "ok")
       => reps'[k].checksum = reps[k].checksum]_vars

(***************************************************************************)
(* C5.  In every reachable state, every rep whose content is defined and   *)
(* that has no write stream with unclosed writes has a checksum field      *)
(* equal to the MD5 of its reconstructed content.                          *)
(***************************************************************************)
C5_ChecksumIsMD5 ==
  \A k \in LiveReps :
    ( /\ Contents(reps, strings, k).ok
      /\ ~(wstream.live /\ ~wstream.finalized /\ wstream.rep_key = k) )
    => reps[k].checksum = MD5(Contents(reps, strings, k).data)

\* the reps met by following the chunks' rep_key from rep k for n hops
RECURSIVE ReachesFulltext(_, _)
ReachesFulltext(k, n) ==
  \/ reps[k].kind = "fulltext"
  \/ /\ reps[k].kind = "delta"
     /\ n > 0
     /\ \A i \in 1..Len(reps[k].chunks) :
          /\ reps[k].chunks[i].rep_key \in RepKeys
          /\ ReachesFulltext(reps[k].chunks[i].rep_key, n - 1)

(***************************************************************************)
(* C6.  After any sequence of deltify and undeltify calls the source       *)
(* relation is acyclic: following the chunks' rep_key from any delta rep   *)
(* reaches a fulltext rep within MaxRepKey hops.                           *)
(***************************************************************************)
C6_Acyclic ==
  \A k \in LiveReps : reps[k].kind = "delta" => ReachesFulltext(k, MaxRepKey)

\* a caller's loop over a read stream: reads of len bytes until a read
\* fails or returns no bytes; [err, data] with the bytes delivered
RECURSIVE ReadAll(_, _, _, _, _)
ReadAll(R, S, rb, len, fuel) ==
  LET r == txn_body_read_rep(R, S, rb, len)
  IN IF r.err # "ok" THEN [err |-> r.err, data |-> <<>>]
     ELSE IF r.data = <<>> \/ fuel = 0 THEN [err |-> "ok", data |-> <<>>]
     ELSE LET rest == ReadAll(R, S, r.rb, len, fuel - 1)
          IN [err |-> rest.err, data |-> r.data \o rest.data]

(***************************************************************************)
(* C7.  When a write stream on a rep has been closed after its last write  *)
(* and the rep still carries the stream's txn_id, a read stream then       *)
(* opened on the rep delivers, for every read length, exactly the          *)
(* concatenation of the buffers written, and no read reports a checksum    *)
(* mismatch.                                                               *)
(***************************************************************************)
C7_WriteThenRead ==
  [][\A k \in LiveReps :
       ( /\ ReadStream(k)
         /\ last'.err = "ok"
         /\ wstream.live /\ wstream.finalized /\ wstream.rep_key = k
         /\ wstream.written = wstream.md5
         /\ reps[k].txn_id = wstream.txn_id )
       => \A len \in ReadLens :
            ReadAll(reps', strings', rstream', len, rstream'.size + 1)
              = [err |-> "ok", data |-> wstream.written]]_vars

\* two buffers were written and the stream closed; a read stream on the rep
\* has delivered them and made its checksum comparison
C7_Witness ==
  /\ last.op = "read" /\ last.err = "ok"
  /\ wstream.live /\ wstream.finalized /\ wstream.writes = 2
  /\ rstream.live /\ rstream.rep_key = wstream.rep_key
  /\ reps[wstream.rep_key].txn_id = wstream.txn_id
  /\ rstream.compared = 1
  /\ rstream.md5 = wstream.written
  /\ wstream.written = wstream.md5
  /\ Len(rstream.md5) > ChunkSize

(***************************************************************************)
(* C8.  A successful range read made for a read stream over an existing    *)
(* rep compares checksums exactly when it brings the offset to the size    *)
(* snapshotted at open and no comparison was made before: it then compares *)
(* the MD5 of all bytes delivered with the checksum in the rep record as   *)
(* it is at that moment, and returns a corruption error if they differ and *)
(* the stored checksum is not the zero sentinel.  Every other read makes   *)
(* no comparison.                                                          *)
(***************************************************************************)
C8_ChecksumAtEnd ==
  [][\A len \in ReadLens :
       ( /\ Read(len)
         /\ rstream.rep_key \in LiveReps
         /\ rep_read_range(reps, strings, rstream.rep_key,
                           rstream.offset, len).err = "ok" )
       => LET data == rep_read_range(reps, strings, rstream.rep_key,
                                     rstream.offset, len).data
              stored == reps[rstream.rep_key].checksum
          IN IF rstream.offset + Len(data) = rstream.size /\ rstream.compared = 0
             THEN /\ rstream'.compared = 1
                  /\ last'.err =
                       (IF stored = ZeroDigest \/ stored = MD5(rstream.md5 \o data)
                        THEN "ok" ELSE "corrupt")
             ELSE /\ rstream'.compared = rstream.compared
                  /\ last'.err = "ok"]_vars

\* a read reached the snapshotted size, compared, and reported a mismatch
\* with a stored checksum that is not the sentinel
C8_Witness ==
  /\ last.op = "read" /\ last.err = "corrupt"
  /\ rstream.compared = 1
  /\ rstream.offset = rstream.size
  /\ Len(rstream.md5) > 0
  /\ reps[rstream.rep_key].checksum # ZeroDigest

(***************************************************************************)
(* C9.  A write through a write stream to an existing rep that, at the     *)
(* time of the write, carries no txn_id or a txn_id other than the         *)
(* stream's returns the RepNotMutable error and appends no bytes to any    *)
(* string.                                                                 *)
(***************************************************************************)
C9_WriteRefused ==
  [][\A buf \in WriteBuffers :
       ( /\ Write(buf)
         /\ reps[wstream.rep_key].kind # "none"
         /\ \/ reps[wstream.rep_key].txn_id = NoKey
            \/ reps[wstream.rep_key].txn_id # wstream.txn_id )
       => /\ last'.err = "not_mutable"
          /\ strings' = strings]_vars

(***************************************************************************)
(* C10.  Creating a write stream on a rep that carries no txn_id, or a     *)
(* txn_id other than the one given, fails with RepNotMutable and leaves    *)
(* the reps table and the strings table unchanged.                         *)
(***************************************************************************)
C10_WriteStreamRefused ==
  [][\A k \in LiveReps, t \in Txns :
       ( /\ WriteStream(k, t)
         /\ (reps[k].txn_id = NoKey \/ reps[k].txn_id # t) )
       => /\ last'.err = "not_mutable"
          /\ reps' = reps
          /\ strings' = strings
          /\ wstream' = wstream]_vars

\* a write stream was refused on a rep that carries no txn_id
C10_Witness ==
  /\ last.op = "write_stream" /\ last.err = "not_mutable"
  /\ last.key \in LiveReps
  /\ reps[last.key].txn_id = NoKey

(***************************************************************************)
(* C11.  A successful creation of a write stream on a rep leaves the rep   *)
(* under the same key, a fulltext rep of the same transaction backed by    *)
(* the same string, with empty content, size 0 and the checksum of the     *)
(* empty string, whatever its content and checksum were.                   *)
(***************************************************************************)
C11_WriteStreamClears ==
  [][\A k \in LiveReps, t \in Txns :
       (WriteStream(k, t) /\ last'.err = "ok")
       => /\ reps'[k].kind = "fulltext"
          /\ reps'[k].txn_id = t
          /\ reps'[k].string_key = reps[k].string_key
          /\ reps'[k].checksum = MD5(<<>>)
          /\ svn_fs__rep_contents_size(reps', strings', k)
               = [err |-> "ok", size |-> 0]
          /\ Contents(reps', strings', k) = [ok |-> TRUE, data |-> <<>>]]_vars

\* a write stream was opened on rep 1, which held sealed content before any
\* write stream existed
C11_Witness ==
  /\ last.op = "write_stream" /\ last.err = "ok" /\ last.key = 1
  /\ wstream.live /\ wstream.rep_key = 1 /\ wstream.writes = 0
  /\ reps[1].checksum = MD5(<<>>)
  /\ strings[reps[1].string_key].data = <<>>
  /\ next_rep = 2

(***************************************************************************)
(* C12.  In every reachable state every rep record that carries a txn_id   *)
(* is a fulltext rep: svn_fs__get_mutable_rep, the write streams, deltify  *)
(* and undeltify never leave a delta rep with a txn_id (a rep that was     *)
(* mutable when deltified has no txn_id afterwards).                       *)
(***************************************************************************)
C12_MutableIsFulltext ==
  \A k \in RepKeys : reps[k].txn_id # NoKey => reps[k].kind = "fulltext"

\* the rep a write stream was opened on, mutable then, has been deltified
C12_Witness ==
  /\ wstream.live
  /\ reps[wstream.rep_key].kind = "delta"
  /\ reps[wstream.rep_key].txn_id = NoKey

(***************************************************************************)
(* C13.  svn_fs__get_mutable_rep(base, txn) returns base and changes       *)
(* nothing when base is given and its record carries the txn_id txn;       *)
(* otherwise it returns a key no rep had, other than base, under which it  *)
(* stores a fulltext rep with the txn_id txn and empty content, leaving    *)
(* every other rep record and every existing string as they were.          *)
(***************************************************************************)
C13_GetMutableRep ==
  [][\A k \in LiveReps \cup {NoKey}, t \in Txns :
       GetMutableRep(k, t)
       => /\ last'.err = "ok"
          /\ Len(last'.data) = 1
          /\ IF k # NoKey /\ reps[k].txn_id = t
             THEN /\ last'.data[1] = k
                  /\ reps' = reps
                  /\ strings' = strings
             ELSE LET new == last'.data[1]
                  IN /\ new \in RepKeys
                     /\ new # k
                     /\ reps[new].kind = "none"
                     /\ reps'[new].kind = "fulltext"
                     /\ reps'[new].txn_id = t
                     /\ Contents(reps', strings', new)
                          = [ok |-> TRUE, data |-> <<>>]
                     /\ svn_fs__rep_contents_size(reps', strings', new)
                          = [err |-> "ok", size |-> 0]
                     /\ \A j \in RepKeys \ {new} : reps'[j] = reps[j]
                     /\ \A s \in StrKeys :
                          strings[s].live => strings'[s] = strings[s]]_vars

\* the base rep is mutable, under another transaction than the caller's: a
\* new rep was made for the caller
C13_Witness ==
  /\ last.op = "get_mutable_rep" /\ last.key = 1 /\ last.data = << 2 >>
  /\ reps[1].kind = "fulltext" /\ reps[1].txn_id = 1
  /\ reps[2].kind = "fulltext" /\ reps[2].txn_id = 2
  /\ strings[reps[2].string_key].data = <<>>

(***************************************************************************)
(* C14.  svn_fs__delete_rep_if_mutable(rep_key, txn_id) on an existing rep *)
(* returns success; when the rep carries the txn_id given, the rep record  *)
(* and every string it is backed by are gone afterwards and nothing else   *)
(* has changed; when the rep carries no txn_id or another one, the reps    *)
(* table and the strings table are unchanged.                              *)
(***************************************************************************)
C14_DeleteRepIfMutable ==
  [][\A k \in LiveReps, t \in Txns :
       DeleteRepIfMutable(k, t)
       => /\ last'.err = "ok"
          /\ IF reps[k].txn_id = t
             THEN LET owned == IF reps[k].kind = "fulltext"
                               THEN { reps[k].string_key }
                               ELSE { reps[k].chunks[i].string_key :
                                        i \in 1..Len(reps[k].chunks) }
                  IN /\ reps'[k] = NoRep
                     /\ \A j \in RepKeys \ {k} : reps'[j] = reps[j]
                     /\ \A s \in StrKeys :
                          IF s \in owned THEN ~strings'[s].live
                          ELSE strings'[s] = strings[s]
             ELSE /\ reps' = reps
                  /\ strings' = strings]_vars

\* a rep that a transaction wrote to was deleted with its string
C14_Witness ==
  /\ last.op = "delete_rep_if_mutable" /\ last.err = "ok"
  /\ reps[last.key].kind = "none"
  /\ wstream.live /\ wstream.rep_key = last.key /\ wstream.writes > 0
  /\ last.data = << wstream.txn_id >>

(***************************************************************************)
(* C15.  svn_fs__rep_deltify(T, T) fails with the corruption error for     *)
(* every rep key T; no string is created and no rep record changes.        *)
(***************************************************************************)
C15_SelfDeltify ==
  [][\A target \in LiveReps :
       Deltify(target, target)
       => /\ last'.err = "corrupt"
          /\ reps' = reps
          /\ strings' = strings]_vars

\* a delta rep was given to deltify as its own source
C15_Witness ==
  /\ last.op = "deltify" /\ last.data = << last.key >>
  /\ last.err = "corrupt"
  /\ reps[last.key].kind = "delta"

(***************************************************************************)
(* C16.  When svn_fs__rep_deltify(T, S), S # T, returns success and has    *)
(* left the fulltext rep T a fulltext rep (the diff was not smaller than   *)
(* the fulltext), the reps table and the strings table are exactly as      *)
(* before the call: no string made during the attempt remains.             *)
(***************************************************************************)
C16_DeclineLeavesNothing ==
  [][\A target \in LiveReps, source \in LiveReps :
       ( /\ Deltify(target, source)
         /\ target # source
         /\ reps[target].kind = "fulltext"
         /\ last'.err = "ok"
         /\ reps'[target].kind = "fulltext" )
       => /\ reps' = reps
          /\ strings' = strings]_vars

(***************************************************************************)
(* C17.  A successful svn_fs__rep_deltify(T, S), S # T, of a fulltext rep  *)
(* T replaces T by a delta rep if and only if the bytes of diff data       *)
(* stored in the strings written for the windows are fewer than the bytes  *)
(* of the fulltext string of T; a delta rep T is replaced in every case.   *)
(***************************************************************************)
C17_ReplacedIffSmaller ==
  [][\A target \in LiveReps, source \in LiveReps :
       ( /\ Deltify(target, source)
         /\ target # source
         /\ last'.err = "ok" )
       => LET made == deltify_windows(reps, strings,
                        rep_read_get_baton(reps, strings, source).rb,
                        rep_read_get_baton(reps, strings, target).rb,
                        0, 0, <<>>, <<>>).ww
              stored == SumSeq([i \in 1..Len(made) |->
                                  svndiff_window_len(made[i].win)])
              replaced == /\ reps'[target].kind = "delta"
                          /\ Len(reps'[target].chunks) = Len(made)
                          /\ \A i \in 1..Len(made) :
                               LET key == reps'[target].chunks[i].string_key
                               IN /\ ~strings[key].live
                                  /\ strings'[key].win = << made[i].win >>
          IN IF reps[target].kind = "fulltext"
             THEN replaced <=>
                    stored < svn_fs__bdb_string_size(strings,
                                                     reps[target].string_key)
             ELSE replaced]_vars

(***************************************************************************)
(* C18.  For a delta rep in which some chunk's version differs from the    *)
(* version of the first chunk, reading the whole content fails with the    *)
(* corruption error, by svn_fs__rep_contents (one range read of the full   *)
(* size at offset 0) and by a read stream drained to the end, whichever    *)
(* chunk carries the other version.                                        *)
(***************************************************************************)
C18_VersionMismatch ==
  [][\A k \in LiveReps :
       ( /\ RepContents(k)
         /\ reps[k].kind = "delta"
         /\ OddChunks(k) # {} )
       => /\ last'.err = "corrupt"
          /\ \A len \in ReadLens :
               ReadAll(reps, strings,
                       rep_read_get_baton(reps, strings, k).rb, len,
                       rep_read_get_baton(reps, strings, k).rb.size + 1).err
                 = "corrupt"]_vars

(***************************************************************************)
(* C19.  For every rep whose content is defined, svn_fs__rep_contents_size *)
(* returns the length of the reconstructed content, which is the size of   *)
(* the backing string for a fulltext rep and offset + size of the last     *)
(* chunk for a delta rep; and a successful deltify or undeltify of a rep   *)
(* leaves the value returned for that rep as it was.                       *)
(***************************************************************************)
C19_SizeIsLength ==
  [][ /\ \A k \in RepKeys :
           LET rep == reps'[k]
               c == Contents(reps', strings', k)
               sz == svn_fs__rep_contents_size(reps', strings', k)
           IN (rep.kind # "none" /\ c.ok)
              => /\ sz = [err |-> "ok", size |-> Len(c.data)]
                 /\ rep.kind = "fulltext"
                      => sz.size = svn_fs__bdb_string_size(strings',
                                                           rep.string_key)
                 /\ rep.kind = "delta"
                      => sz.size = rep.chunks[Len(rep.chunks)].offset
                                     + rep.chunks[Len(rep.chunks)].size
      /\ \A k \in LiveReps :
           ( /\ \/ \E source \in LiveReps : Deltify(k, source)
                \/ Undeltify(k)
             /\ last'.err = "ok" )
           => svn_fs__rep_contents_size(reps', strings', k)
                = svn_fs__rep_contents_size(reps, strings, k) ]_vars

\* a rep of three chunks, the last one shorter than the others, made by
\* deltify from a fulltext rep
C19_Witness ==
  /\ last.op = "deltify" /\ last.err = "ok"
  /\ reps[last.key].kind = "delta"
  /\ Len(reps[last.key].chunks) = 3
  /\ reps[last.key].chunks[3].size < reps[last.key].chunks[1].size
  /\ Contents(reps, strings, last.key).ok
  /\ svn_fs__rep_contents_size(reps, strings, last.key).size
       = Len(Contents(reps, strings, last.key).data)

NextRead ==
  \/ \E k \in LiveReps \cup {NoKey} : ReadStream(k)
  \/ \E len \in ReadLens : Read(len)
  \/ opened.d < MaxStreamDeltaOps /\ \E t \in LiveReps, s \in LiveReps : Deltify(t, s)
  \/ opened.d < MaxStreamDeltaOps /\ \E k \in LiveReps : Undeltify(k)

SpecRead == InitDelta /\ [][NextRead]_vars

\* the read baton txn_body_read_rep is handed for a stream over no rep: the
\* stream functions leave its offset at 0 (only a read of a rep advances
\* it); the other offsets are the ones the function provides an answer for
MaxNullOffset == 2

InitNull ==
  /\ \E texts \in CommittedTexts :
       /\ reps = CommittedReps(texts)
       /\ strings = CommittedStrings(texts)
  /\ next_rep = MaxRepKey + 1
  /\ wstream = NoWriteBaton
  /\ \E o \in 0..MaxNullOffset :
       rstream = [NoReadBaton EXCEPT !.live = TRUE, !.offset = o]
  /\ opened = [w |-> 0, r |-> 0, d |-> 0]
  /\ NoLocks
  /\ last = Outcome("init", NoKey, "ok", <<>>)

SpecNull == InitNull /\ [][NextRead]_vars

C22_Immutable ==
  [][ \A k \in LiveReps :
        /\ ( /\ reps[k].txn_id = NoKey
             /\ Contents(reps, strings, k).ok
             /\ \/ \E buf \in WriteBuffers : Write(buf)
                \/ Close
                \/ \E t \in LiveReps, s \in LiveReps : Deltify(t, s)
                \/ \E r \in LiveReps : Undeltify(r) )
           => /\ Contents(reps', strings', k) = Contents(reps, strings, k)
              /\ reps'[k].checksum = reps[k].checksum
        /\ ( /\ reps[k].txn_id # NoKey
             /\ wstream.txn_id # reps[k].txn_id
             /\ \/ \E buf \in WriteBuffers : Write(buf)
                \/ Close )
           => /\ reps'[k] = reps[k]
              /\ Contents(reps', strings', k) = Contents(reps, strings, k)
    ]_vars

(***************************************************************************)
(* C23.  When a read stream on rep R has delivered the first bytes of R's  *)
(* content and a deltify or an undeltify of R then succeeds and rewrites   *)
(* R's record, the reads that follow on the stream, of any length, deliver *)
(* the rest of the content R had, with no byte lost or repeated, and the   *)
(* checksum comparison at the end of the stream reports no corruption.     *)
(***************************************************************************)
C23_ShapeChangeUnderStream ==
  [][ \A k \in LiveReps, len \in ReadLens :
        ( /\ rstream.live /\ rstream.rep_key = k
          /\ rstream.offset > 0 /\ rstream.offset < rstream.size
          /\ Contents(reps, strings, k).ok
          /\ rstream.size = Len(Contents(reps, strings, k).data)
          /\ rstream.md5 = SubSeq(Contents(reps, strings, k).data, 1,
                                  rstream.offset)
          /\ \/ \E source \in LiveReps : Deltify(k, source)
             \/ Undeltify(k)
          /\ last'.err = "ok"
          /\ reps'[k] # reps[k] )
        => ReadAll(reps', strings', rstream, len, MaxChunks + 1)
             = [err |-> "ok",
                data |-> SubSeq(Contents(reps, strings, k).data,
                                rstream.offset + 1, rstream.size)] ]_vars

(***************************************************************************)
(* C24.  When a rep is cleared (a write stream is created on it) or        *)
(* appended to (a write through a write stream succeeds) while a read      *)
(* stream on the same rep is open, the next read on that read stream, of   *)
(* any length, returns an error; at the least it does not return success   *)
(* with anything but the bytes that follow, in the content the rep had     *)
(* before the change, the bytes the stream has delivered.                  *)
(***************************************************************************)
C24_InterleavedWriteRefused ==
  [][ \A k \in LiveReps, len \in ReadLens :
        ( /\ rstream.live /\ rstream.rep_key = k
          /\ Contents(reps, strings, k).ok
          /\ rstream.size = Len(Contents(reps, strings, k).data)
          /\ rstream.md5 = SubSeq(Contents(reps, strings, k).data, 1,
                                  rstream.offset)
          /\ \/ wstream.rep_key = k /\ \E buf \in WriteBuffers : Write(buf)
             \/ \E t \in Txns : WriteStream(k, t)
          /\ last'.err = "ok" )
        => \/ txn_body_read_rep(reps', strings', rstream', len).err # "ok"
           \/ txn_body_read_rep(reps', strings', rstream', len).data
                = SubSeq(Contents(reps, strings, k).data, rstream.offset + 1,
                         Min(rstream.offset + len, rstream.size)) ]_vars

(***************************************************************************)
(* C25.  In every delta rep record written by deltify the first chunk has  *)
(* offset 0, every later chunk starts where the chunk before it ends, and  *)
(* every chunk has a size greater than 0; so get_chunk_offset, for every   *)
(* offset up to the size of the rep, fails no assertion: the first chunk   *)
(* whose end exceeds the offset starts at or before it.                    *)
(***************************************************************************)
C25_ChunksContiguous ==
  \A k \in RepKeys :
    reps[k].kind = "delta" =>
      /\ Len(reps[k].chunks) > 0
      /\ reps[k].chunks[1].offset = 0
      /\ \A i \in 2..Len(reps[k].chunks) :
           reps[k].chunks[i].offset
             = reps[k].chunks[i-1].offset + reps[k].chunks[i-1].size
      /\ \A i \in 1..Len(reps[k].chunks) : reps[k].chunks[i].size > 0
      /\ \A o \in 0..(reps[k].chunks[Len(reps[k].chunks)].offset
                        + reps[k].chunks[Len(reps[k].chunks)].size) :
           ~get_chunk_offset(reps[k], o).failed

\* a delta rep of three chunks written by deltify over a delta rep
C25_Witness ==
  /\ last.op = "deltify" /\ last.err = "ok"
  /\ reps[last.key].kind = "delta"
  /\ Len(reps[last.key].chunks) = 3
  /\ reps[last.key].chunks[3].offset = 2 * ChunkSize
  /\ reps[last.data[1]].kind = "delta"
  /\ get_chunk_offset(reps[last.key], 2 * ChunkSize) =
       [chunk |-> 2, off |-> 0, failed |-> FALSE]

(***************************************************************************)
(* C26.  In the delta rep record written by a successful deltify of        *)
(* target against source, the checksum field of every chunk is the MD5 of  *)
(* the reconstructed content of the source rep.                            *)
(***************************************************************************)
C26_ChunkChecksumOfSource ==
  [][ \A target \in LiveReps, source \in LiveReps :
        ( /\ Deltify(target, source)
          /\ last'.err = "ok"
          /\ reps'[target] # reps[target]
          /\ Contents(reps, strings, source).ok )
        => \A i \in 1..Len(reps'[target].chunks) :
             reps'[target].chunks[i].checksum
               = MD5(Contents(reps, strings, source).data) ]_vars

(***************************************************************************)
(* C27.  Every delta rep record in the reps table has at least one chunk,  *)
(* also when it was written by the deltify of a delta rep, where the size  *)
(* test is skipped; the assertions on the number of chunks in              *)
(* get_chunk_offset and in svn_fs__rep_contents_size fail on no stored     *)
(* rep.                                                                    *)
(***************************************************************************)
C27_DeltaHasChunks ==
  \A k \in RepKeys :
    reps[k].kind = "delta" =>
      /\ Len(reps[k].chunks) >= 1
      /\ svn_fs__rep_contents_size(reps, strings, k).err # "abort"
      /\ ~get_chunk_offset(reps[k], 0).failed

\* a delta rep deltified again: its first window went to the string key
\* that the fulltext of a committed rep had and the first deltify released
C27_Witness ==
  /\ last.op = "deltify" /\ last.err = "ok"
  /\ reps[last.key].kind = "delta"
  /\ reps[last.key].chunks[1].rep_key = last.data[1]
  /\ reps[last.key].chunks[1].string_key = last.key
  /\ Len(reps[last.key].chunks) >= 1
  /\ svn_fs__rep_contents_size(reps, strings, last.key).err = "ok"

C29_ChunksAligned ==
  \A t \in RepKeys :
    (reps[t].kind = "delta" /\ Len(reps[t].chunks) > 0) =>
      LET s == reps[t].chunks[1].rep_key
      IN (s \in RepKeys /\ reps[s].kind = "delta") =>
           \A i \in 1..Min(Len(reps[t].chunks), Len(reps[s].chunks)) :
             /\ reps[t].chunks[i].offset = reps[s].chunks[i].offset
             /\ LET w == strings[reps[t].chunks[i].string_key].win[1]
                IN w.sview_len > 0 =>
                     /\ w.sview_offset = reps[s].chunks[i].offset
                     /\ w.sview_len <= reps[s].chunks[i].size

\* a delta rep of three chunks over a delta rep of three chunks
C29_Witness ==
  \E t \in RepKeys :
    /\ reps[t].kind = "delta" /\ Len(reps[t].chunks) = 3
    /\ reps[t].chunks[1].rep_key \in RepKeys
    /\ reps[reps[t].chunks[1].rep_key].kind = "delta"
    /\ Len(reps[reps[t].chunks[1].rep_key].chunks) = 3
    /\ reps[t].chunks[3].offset = 2 * ChunkSize
    /\ reps[reps[t].chunks[1].rep_key].chunks[3].offset = 2 * ChunkSize

(***************************************************************************)
(* C30.  After every successful svn_fs__get_mutable_rep,                   *)
(* svn_fs__rep_deltify, svn_fs__rep_undeltify and                          *)
(* svn_fs__delete_rep_if_mutable, every string key held by a stored rep    *)
(* record names a string of the strings table, and every string of the     *)
(* strings table is held by exactly one stored rep record: no dangling     *)
(* key, no leaked string, no string shared by two reps.                    *)
(***************************************************************************)
C30_StringsOwnedOnce ==
  [][ ( /\ \/ \E k \in LiveReps \cup {NoKey}, t \in Txns : GetMutableRep(k, t)
           \/ \E t \in LiveReps, s \in LiveReps : Deltify(t, s)
           \/ \E k \in LiveReps : Undeltify(k)
           \/ \E k \in LiveReps, t \in Txns : DeleteRepIfMutable(k, t)
        /\ last'.err = "ok" )
      => LET keys(k) == IF reps'[k].kind = "fulltext"
                        THEN { reps'[k].string_key }
                        ELSE IF reps'[k].kind = "delta"
                        THEN { reps'[k].chunks[i].string_key :
                                 i \in 1..Len(reps'[k].chunks) }
                        ELSE {}
         IN /\ \A k \in RepKeys : \A s \in keys(k) :
                 s \in StrKeys /\ strings'[s].live
            /\ \A s \in StrKeys :
                 strings'[s].live
                   => Cardinality({k \in RepKeys : s \in keys(k)}) = 1 ]_vars

\* C31: after any sequence of get_mutable_rep, deltify, undeltify and
\* delete_rep_if_mutable calls (and the writes that fill the mutable reps),
\* the rep_key of every chunk of every stored delta rep names a rep that
\* still exists in the reps table.
C31_SourcesExist ==
  \A k \in RepKeys :
     reps[k].kind = "delta"
       => \A i \in 1..Len(reps[k].chunks) :
             /\ reps[k].chunks[i].rep_key \in RepKeys
             /\ reps[reps[k].chunks[i].rep_key].kind # "none"

(***************************************************************************)
(* A stream read in a trail of its own (rb->trail is NULL): the body runs  *)
(* under svn_fs__retry_txn, which runs it again with the same arguments    *)
(* when the store raised a transient error.  The read baton and *len are   *)
(* memory of the caller: what a failed attempt wrote there stays.          *)
(***************************************************************************)
\* the storage calls of txn_body_read_rep at which the store may raise a
\* transient error: the first read of rep_read_range, and the read of the
\* rep record before the checksums are compared
RetryPoints == {"rep_read_range", "svn_fs__bdb_read_rep"}

\* svn_fs__retry_txn (fs, txn_body_read_rep, &args, subpool) with one
\* transient error at fail_at: [replayed, err, data, rb]; data is buf[0..*len)
\* as reported to the caller
svn_fs__retry_txn(R, S, rb, len, fail_at) ==
  IF rb.rep_key = NoKey
  THEN [replayed |-> FALSE, err |-> "ok", data |-> <<>>, rb |-> rb]
  ELSE IF fail_at = "rep_read_range"
  THEN The({ [replayed |-> TRUE, err |-> b.err, data |-> b.data, rb |-> b.rb]
             : b \in { txn_body_read_rep(R, S, rb, len) } })
  ELSE The({
    IF r.err = "ok" /\ ~rb.checksum_finalized
       /\ checksum_due(rb, rb.offset + Len(r.data))
    THEN The({ [replayed |-> TRUE, err |-> b.err, data |-> b.data, rb |-> b.rb]
               : b \in { txn_body_read_rep(R, S,
                           [rb EXCEPT !.offset = rb.offset + Len(r.data),
                                      !.md5 = rb.md5 \o r.data,
                                      !.checksum_finalized = TRUE],
                           Len(r.data)) } })
    ELSE [replayed |-> FALSE, err |-> r.err, data |-> r.data, rb |-> rb]
    : r \in { rep_read_range(R, S, rb.rep_key, rb.offset, len) } })

\* rep_read_contents without a caller's trail, the body replayed once
ReadReplayed(len, fail_at) ==
  /\ rstream.live
  /\ \E r \in { svn_fs__retry_txn(reps, strings, rstream, len, fail_at) } :
       /\ r.replayed
       /\ rstream' = r.rb
       /\ UNCHANGED lock_vars
       /\ last' = Outcome("read_replayed", rstream.rep_key, r.err, r.data)
  /\ UNCHANGED <<reps, strings, next_rep, wstream, opened>>

NextRetry ==
  \/ \E k \in LiveReps \cup {NoKey} : ReadStream(k)
  \/ \E len \in ReadLens : Read(len)
  \/ \E len \in ReadLens, f \in RetryPoints : ReadReplayed(len, f)
  \/ opened.d < MaxStreamDeltaOps /\ \E t \in LiveReps, s \in LiveReps : Deltify(t, s)

\* read streams over committed reps, some reads replayed by the harness
SpecRetry == InitDelta /\ [][NextRetry]_vars

\* C32: a successful stream read whose trail body was replayed after a
\* transient error reports as many bytes as the offset of the stream
\* advances, those bytes are the content at the old offset, the running MD5
\* has taken them once, and when the read reaches the size recorded at open
\* the checksums have been compared.
C32_ReplayedRead ==
  [][ \A len \in ReadLens, f \in RetryPoints :
        ( /\ ReadReplayed(len, f)
          /\ last'.err = "ok"
          /\ ~rstream.checksum_finalized )
        => /\ rstream'.offset = rstream.offset + Len(last'.data)
           /\ last'.data = SubSeq(Contents(reps, strings, rstream.rep_key).data,
                                  rstream.offset + 1, rstream'.offset)
           /\ rstream'.md5 = rstream.md5 \o last'.data
           /\ rstream'.offset = rstream.size
                => rstream'.compared = rstream.compared + 1 ]_vars

\* C33: rep_read_range with a requested length of 0 returns success with 0
\* bytes at every offset of every rep whose chain of delta sources ends in
\* a fulltext, an offset strictly inside a chunk of a delta rep included; no
\* assertion of rep_undeltify_range fails.
C33_ZeroLengthRead ==
  \A k \in LiveReps :
     ReachesFulltext(k, MaxRepKey)
       => \A offset \in 0..Len(Contents(reps, strings, k).data) :
             rep_read_range(reps, strings, k, offset, 0) = Result("ok", <<>>)

(***************************************************************************)
(* Locks (lock.c).  The tables change only when the body of the trail      *)
(* returns success: an error aborts the trail and with it every change the *)
(* body made.                                                              *)
(***************************************************************************)
\* svn_fs_base__get_path_kind
svn_fs_base__get_path_kind(path) ==
  IF path = "/d" THEN "dir" ELSE IF path = "/h" THEN "none" ELSE "file"

\* the paths at or below path
AtOrBelow(path) ==
  { p \in Paths : p = path \/ (path = "/d" /\ p \in {"/d/f", "/d/g"}) }

\* svn_fs_base__get_path_created_rev; -1 is SVN_INVALID_REVNUM
svn_fs_base__get_path_created_rev(path) ==
  IF svn_fs_base__get_path_kind(path) = "none" THEN -1 ELSE 1

\* current_rev of the callers: invalid, or older than every path
CurrentRevs == {-1, 0}

\* the username of fs->access_ctx
Usernames == Users \cup {NoUser}

\* svn_fs_bdb__lock_get: [err, lock]
svn_fs_bdb__lock_get(L, token) ==
  IF token \notin Tokens \/ ~L[token].live
  THEN [err |-> "bad_lock_token", lock |-> NoLock]
  ELSE IF L[token].expiry = "past"
  THEN [err |-> "lock_expired", lock |-> NoLock]
  ELSE [err |-> "ok", lock |-> L[token]]

\* svn_fs_base__get_lock_from_path_helper: [lock, locks, lock_tokens]; lock
\* is NoLock for *lock_p = NULL.  The table functions have cleared out the
\* rows of a lock that is gone or has expired.
svn_fs_base__get_lock_from_path_helper(L, T, path) ==
  IF T[path] = NoKey
  THEN [lock |-> NoLock, locks |-> L, lock_tokens |-> T]
  ELSE IF ~L[T[path]].live
  THEN [lock |-> NoLock, locks |-> L,
        lock_tokens |-> [T EXCEPT ![path] = NoKey]]
  ELSE IF L[T[path]].expiry = "past"
  THEN [lock |-> NoLock, locks |-> [L EXCEPT ![T[path]] = NoLock],
        lock_tokens |-> [T EXCEPT ![path] = NoKey]]
  ELSE [lock |-> L[T[path]], locks |-> L, lock_tokens |-> T]

\* the test of current_rev in txn_body_lock and txn_body_attach_lock
out_of_date(path, current_rev) ==
  /\ current_rev >= 0
  /\ \/ svn_fs_base__get_path_created_rev(path) < 0
     \/ current_rev < svn_fs_base__get_path_created_rev(path)

\* generate_new_lock: the token is the next one of the generator
generate_new_lock(token, path, owner, timeout) ==
  Lock(token, path, owner, IF timeout THEN "later" ELSE "never")

\* txn_body_lock that destroys an existing lock whether or not force was
\* passed
txn_body_lock_steals(L, T, token, username, path, force, timeout, current_rev) ==
  LET fail(e) == [err |-> e, locks |-> L, lock_tokens |-> T, lock |-> NoLock]
  IN IF svn_fs_base__get_path_kind(path) = "dir" THEN fail("not_file")
     ELSE IF username = NoUser THEN fail("no_user")
     ELSE IF out_of_date(path, current_rev) THEN fail("out_of_date")
     ELSE The({
       The({
         [err |-> "ok",
          locks |-> [(IF h.lock.live
                      THEN [h.locks EXCEPT ![h.lock.token] = NoLock]
                      ELSE h.locks) EXCEPT ![token] = new_lock],
          lock_tokens |-> [h.lock_tokens EXCEPT ![path] = token],
          lock |-> new_lock]
         : new_lock \in { generate_new_lock(token, path, username, timeout) } })
       : h \in { svn_fs_base__get_lock_from_path_helper(L, T, path) } })

\* txn_body_lock: [err, locks, lock_tokens, lock]
txn_body_lock(L, T, token, username, path, force, timeout, current_rev) ==
  LET fail(e) == [err |-> e, locks |-> L, lock_tokens |-> T, lock |-> NoLock]
  IN IF svn_fs_base__get_path_kind(path) = "dir" THEN fail("not_file")
     ELSE IF username = NoUser THEN fail("no_user")
     ELSE IF out_of_date(path, current_rev) THEN fail("out_of_date")
     ELSE The({
       IF h.lock.live /\ ~force THEN fail("path_locked")
       ELSE The({
         [err |-> "ok",
          locks |-> [(IF h.lock.live
                      THEN [h.locks EXCEPT ![h.lock.token] = NoLock]
                      ELSE h.locks) EXCEPT ![token] = new_lock],
          lock_tokens |-> [h.lock_tokens EXCEPT ![path] = token],
          lock |-> new_lock]
         : new_lock \in { generate_new_lock(token, path, username, timeout) } })
       : h \in { svn_fs_base__get_lock_from_path_helper(L, T, path) } })

\* svn_fs_base__lock
LockPath(path, username, force, timeout, current_rev) ==
  /\ \E r \in { txn_body_lock(locks, lock_tokens, next_token, username, path,
                              force, timeout, current_rev) } :
       /\ r.err = "ok" => next_token <= MaxToken
       /\ locks' = r.locks
       /\ lock_tokens' = r.lock_tokens
       /\ next_token' = IF r.err = "ok" THEN next_token + 1 ELSE next_token
       /\ last' = Outcome("lock", NoKey, r.err, <<>>)
  /\ UNCHANGED <<reps, strings, next_rep, wstream, rstream, opened, attached>>

\* txn_body_attach_lock: [err, locks, lock_tokens]
txn_body_attach_lock(L, T, username, lock, current_rev) ==
  LET fail(e) == [err |-> e, locks |-> L, lock_tokens |-> T]
      owner == IF lock.owner = NoUser THEN username ELSE lock.owner
  IN IF svn_fs_base__get_path_kind(lock.path) = "dir" THEN fail("not_file")
     ELSE IF lock.owner = NoUser /\ username = NoUser THEN fail("no_user")
     ELSE IF out_of_date(lock.path, current_rev) THEN fail("out_of_date")
     ELSE The({
       IF h.lock.live /\ lock.token # h.lock.token
         THEN fail("bad_lock_token")
       ELSE IF h.lock.live /\ owner # h.lock.owner
         THEN fail("lock_owner_mismatch")
       ELSE [err |-> "ok",
             locks |-> [h.locks EXCEPT ![lock.token] =
                          Lock(lock.token, lock.path, owner, lock.expiry)],
             lock_tokens |-> [h.lock_tokens EXCEPT ![lock.path] = lock.token]]
       : h \in { svn_fs_base__get_lock_from_path_helper(L, T, lock.path) } })

\* the locks a caller hands to svn_fs_base__attach_lock: the token is one
\* that this filesystem made earlier or one of another filesystem; the lock
\* has no expiration date
AttachableLocks ==
  { Lock(token, path, owner, "never") :
      token \in (1..(next_token - 1)) \cup {ForeignToken},
      path \in Paths, owner \in Usernames }

\* svn_fs_base__attach_lock; the username of the filesystem is read only
\* for a lock without owner, so one username stands for all when the lock
\* has one
AttachLock(lock, username, current_rev) ==
  /\ lock.owner # NoUser => username = NoUser
  /\ \E r \in { txn_body_attach_lock(locks, lock_tokens, username, lock,
                                     current_rev) } :
       /\ r.err = "ok" => attached < MaxAttach
       /\ attached' = IF r.err = "ok" THEN attached + 1 ELSE attached
       /\ locks' = r.locks
       /\ lock_tokens' = r.lock_tokens
       /\ last' = Outcome("attach_lock", NoKey, r.err, <<>>)
  /\ UNCHANGED <<reps, strings, next_rep, wstream, rstream, opened, next_token>>

\* txn_body_unlock without the comparison of the username with the owner
txn_body_unlock_any_owner(L, T, username, token, force) ==
  LET fail(e) == [err |-> e, locks |-> L, lock_tokens |-> T, path |-> ""]
  IN IF token = NoKey THEN fail("bad_lock_token")
     ELSE The({
       IF g.err # "ok" THEN fail(g.err)
       ELSE IF username = NoUser THEN fail("no_user")
       ELSE IF T[g.lock.path] = NoKey THEN fail("no_such_lock")
       ELSE [err |-> "ok",
             locks |-> [L EXCEPT ![g.lock.token] = NoLock],
             lock_tokens |-> [T EXCEPT ![g.lock.path] = NoKey],
             path |-> g.lock.path]
       : g \in { svn_fs_bdb__lock_get(L, token) } })

\* txn_body_unlock: [err, locks, lock_tokens, path]; token is NoKey for NULL
txn_body_unlock(L, T, username, token, force) ==
  LET fail(e) == [err |-> e, locks |-> L, lock_tokens |-> T, path |-> ""]
  IN IF token = NoKey THEN fail("bad_lock_token")
     ELSE The({
       IF g.err # "ok" THEN fail(g.err)
       ELSE IF username = NoUser THEN fail("no_user")
       ELSE IF ~force /\ username # g.lock.owner
         THEN fail("lock_owner_mismatch")
       ELSE IF T[g.lock.path] = NoKey THEN fail("no_such_lock")
       ELSE [err |-> "ok",
             locks |-> [L EXCEPT ![g.lock.token] = NoLock],
             lock_tokens |-> [T EXCEPT ![g.lock.path] = NoKey],
             path |-> g.lock.path]
       : g \in { svn_fs_bdb__lock_get(L, token) } })

\* svn_fs_base__unlock
Unlock(token, username, force) ==
  /\ \E r \in { txn_body_unlock(locks, lock_tokens, username, token, force) } :
       /\ locks' = r.locks
       /\ lock_tokens' = r.lock_tokens
       /\ last' = Outcome("unlock", NoKey, r.err, <<>>)
  /\ UNCHANGED <<reps, strings, next_rep, wstream, rstream, opened, next_token,
                 attached>>

\* apr_time_now passes the expiration date of a lock
Expire(token) ==
  /\ locks[token].live
  /\ locks[token].expiry = "later"
  /\ locks' = [locks EXCEPT ![token].expiry = "past"]
  /\ last' = Outcome("expire", NoKey, "ok", <<>>)
  /\ UNCHANGED <<reps, strings, next_rep, wstream, rstream, opened,
                 lock_tokens, next_token, attached>>

\* fs->access_ctx: the username and the lock tokens the caller has supplied
\* (no token, one token, or every token)
AccessCtxs ==
  [username : Usernames,
   lock_tokens : {{}} \cup { {t} : t \in Tokens } \cup {Tokens}]

\* verify_lock that looks for the lock token before it compares the owner
verify_lock_token_first(ctx, lock) ==
  IF ctx.username = NoUser THEN "no_user"
  ELSE IF lock.token \notin ctx.lock_tokens THEN "bad_lock_token"
  ELSE IF ctx.username # lock.owner THEN "lock_owner_mismatch"
  ELSE "ok"

\* verify_lock
verify_lock(ctx, lock) ==
  IF ctx.username = NoUser THEN "no_user"
  ELSE IF ctx.username # lock.owner THEN "lock_owner_mismatch"
  ELSE IF lock.token \notin ctx.lock_tokens THEN "bad_lock_token"
  ELSE "ok"

\* verify_locks: the errors the loop over the hash may return; the order of
\* the hash decides which unusable lock is met first
verify_locks(ctx, found) ==
  IF \A lock \in found : verify_lock(ctx, lock) = "ok" THEN {"ok"}
  ELSE { verify_lock(ctx, lock) : lock \in found } \ {"ok"}

\* svn_fs_base__get_locks_helper / svn_fs_bdb__locks_get: the locks at or
\* below path, [found, locks, lock_tokens]
svn_fs_base__get_locks_helper(L, T, path) ==
  [found |-> { L[T[p]] : p \in { q \in AtOrBelow(path) :
                                   /\ T[q] # NoKey
                                   /\ L[T[q]].live
                                   /\ L[T[q]].expiry # "past" } },
   locks |-> [t \in Tokens |->
                IF \E q \in AtOrBelow(path) : T[q] = t /\ L[t].expiry = "past"
                THEN NoLock ELSE L[t]],
   lock_tokens |-> [q \in Paths |->
                      IF /\ q \in AtOrBelow(path)
                         /\ T[q] # NoKey
                         /\ (~L[T[q]].live \/ L[T[q]].expiry = "past")
                      THEN NoKey ELSE T[q]]]

\* svn_fs_base__allow_locked_operation: the set of [err, locks, lock_tokens]
\* it may return
svn_fs_base__allow_locked_operation(L, T, path, kind, recurse, ctx) ==
  IF kind = "dir" /\ recurse
  THEN UNION { { [err |-> e, locks |-> g.locks, lock_tokens |-> g.lock_tokens]
                 : e \in verify_locks(ctx, g.found) }
               : g \in { svn_fs_base__get_locks_helper(L, T, path) } }
  ELSE { [err |-> IF h.lock.live THEN verify_lock(ctx, h.lock) ELSE "ok",
          locks |-> h.locks, lock_tokens |-> h.lock_tokens]
         : h \in { svn_fs_base__get_lock_from_path_helper(L, T, path) } }

\* a caller's svn_fs_base__allow_locked_operation on a path of the tree
AllowLockedOperation(path, recurse, ctx) ==
  /\ \E r \in svn_fs_base__allow_locked_operation(locks, lock_tokens, path,
                svn_fs_base__get_path_kind(path), recurse, ctx) :
       /\ locks' = IF r.err = "ok" THEN r.locks ELSE locks
       /\ lock_tokens' = IF r.err = "ok" THEN r.lock_tokens ELSE lock_tokens
       /\ last' = Outcome("allow_locked_operation", NoKey, r.err, <<>>)
  /\ UNCHANGED <<reps, strings, next_rep, wstream, rstream, opened, next_token,
                 attached>>

\* a filesystem with no representation stored and no lock
InitLock ==
  /\ reps = [k \in RepKeys |-> NoRep]
  /\ strings = [s \in StrKeys |-> NoString]
  /\ next_rep = 1
  /\ wstream = NoWriteBaton
  /\ rstream = NoReadBaton
  /\ opened = [w |-> 0, r |-> 0, d |-> 0]
  /\ NoLocks
  /\ last = Outcome("init", NoKey, "ok", <<>>)

NextLock ==
  \/ \E path \in Paths, username \in Usernames, force \in BOOLEAN,
        timeout \in BOOLEAN, current_rev \in CurrentRevs :
       LockPath(path, username, force, timeout, current_rev)
  \/ \E token \in Tokens \cup {NoKey}, username \in Usernames,
        force \in BOOLEAN :
       Unlock(token, username, force)
  \/ \E token \in Tokens : Expire(token)
  \/ \E path \in Paths, recurse \in BOOLEAN, ctx \in AccessCtxs :
       AllowLockedOperation(path, recurse, ctx)

\* locking, unlocking and lock enforcement on a filesystem that starts with
\* no lock
SpecLock == InitLock /\ [][NextLock]_vars

NextAttach ==
  \/ \E path \in Paths, username \in Usernames, force \in BOOLEAN,
        timeout \in BOOLEAN, current_rev \in CurrentRevs :
       LockPath(path, username, force, timeout, current_rev)
  \/ \E lock \in AttachableLocks, username \in Usernames,
        current_rev \in CurrentRevs :
       AttachLock(lock, username, current_rev)
  \/ \E token \in Tokens \cup {NoKey}, username \in Usernames,
        force \in BOOLEAN :
       Unlock(token, username, force)
  \/ \E token \in Tokens : Expire(token)

\* the operations that write the lock tables, svn_fs_base__attach_lock
\* among them
SpecAttach == InitLock /\ [][NextAttach]_vars

\* the path carries a lock that has not expired
PathLocked(path) ==
  /\ lock_tokens[path] # NoKey
  /\ locks[lock_tokens[path]].live
  /\ locks[lock_tokens[path]].expiry # "past"

C35_TablesConsistent ==
  /\ \A path \in Paths :
       lock_tokens[path] # NoKey
         => /\ locks[lock_tokens[path]].live
            /\ locks[lock_tokens[path]].path = path
  /\ \A token \in Tokens :
       locks[token].live => lock_tokens[locks[token].path] = token

\* C36: svn_fs_base__unlock on the token of a lock that has not expired, by
\* a caller with a username: without force it removes the lock exactly when
\* the username equals the lock's owner, and a different username gets the
\* owner-mismatch error with both lock tables unchanged; with force every
\* such caller removes the lock.  After a successful unlock the lock's path
\* has no lock, the token has no record, and every user can lock the path
\* again without force.
C36_Unlock ==
  [][ \A token \in Tokens, username \in Users, force \in BOOLEAN :
        ( /\ last'.op = "unlock"
          /\ svn_fs_bdb__lock_get(locks, token).err = "ok"
          /\ Unlock(token, username, force) )
        => /\ (~force /\ username # locks[token].owner)
                => /\ last'.err = "lock_owner_mismatch"
                   /\ locks' = locks
                   /\ lock_tokens' = lock_tokens
           /\ (force \/ username = locks[token].owner)
                => /\ last'.err = "ok"
                   /\ ~locks'[token].live
                   /\ lock_tokens'[locks[token].path] = NoKey
                   /\ \A u \in Users :
                        txn_body_lock(locks', lock_tokens', next_token', u,
                                      locks[token].path, FALSE, FALSE, -1).err
                          = "ok" ]_vars

\* an unlock has succeeded and left no lock at all
C36_Witness ==
  /\ last.op = "unlock"
  /\ last.err = "ok"
  /\ next_token > 1
  /\ \A path \in Paths : lock_tokens[path] = NoKey

\* what the lock on path, if there is one that has not expired, lets the
\* access context do
Allowed(ctx, path) ==
  IF ~PathLocked(path) THEN "ok"
  ELSE IF ctx.username = NoUser THEN "no_user"
  ELSE IF ctx.username # locks[lock_tokens[path]].owner
    THEN "lock_owner_mismatch"
  ELSE IF lock_tokens[path] \notin ctx.lock_tokens THEN "bad_lock_token"
  ELSE "ok"

\* C37: svn_fs_base__allow_locked_operation on a file path, a free name or
\* a directory checked non-recursively returns success if and only if the
\* path carries no unexpired lock, or the filesystem has a username that
\* equals the lock's owner and the access context holds the lock's token;
\* otherwise it returns, in this order of precedence, no-user, owner-mismatch
\* or bad-lock-token.  On a directory checked recursively it succeeds if and
\* only if every unexpired lock at or below the path passes the same test.
\* Stated of every call that can be made in a state the lock operations
\* reach.
C37_AllowLockedOperation ==
  \A path \in Paths, recurse \in BOOLEAN, ctx \in AccessCtxs :
     \A r \in svn_fs_base__allow_locked_operation(locks, lock_tokens, path,
                svn_fs_base__get_path_kind(path), recurse, ctx) :
        IF svn_fs_base__get_path_kind(path) = "dir" /\ recurse
        THEN r.err = "ok" <=> \A p \in AtOrBelow(path) : Allowed(ctx, p) = "ok"
        ELSE r.err = Allowed(ctx, path)

\* the check has been refused for a missing lock token: a lock stands on a
\* path, and the refused context had its owner's username
C37_Witness ==
  /\ last.op = "allow_locked_operation"
  /\ last.err = "bad_lock_token"
  /\ \E path \in Paths : PathLocked(path)
====
